---- MODULE Spec2Model ----
(***************************************************************************)
(* A state-machine model of the god-casa batch simulation library          *)
(* (src/simulation.c): columnar containers and the transforms over them.   *)
(*                                                                         *)
(* Numbers.  A C float that holds a quantity is modelled as an integer in  *)
(* hundredths (1.0f is One = 100).  A product of two quantities is rounded *)
(* down to the next hundredth.  A float literal such as 0.25f is applied   *)
(* as the exact ratio 25/100.  The IEEE values NaN, +inf and -inf are      *)
(* reserved integers outside the range of every quantity.  Research points *)
(* are the exception: they are counted in blocks of 64 points and rounded  *)
(* to float's 24-bit significand (see the technology section).             *)
(***************************************************************************)
EXTENDS Integers, Sequences, FiniteSets, TLC

VARIABLES
    pop,          \* PopSoA  (source container of pop_migration)
    popd,         \* PopSoA  (destination container of pop_migration)
    faith,        \* FaithSoA
    combat,       \* CombatSoA
    econ,         \* EconSoA (seller of econ_trade)
    econb,        \* EconSoA (buyer of econ_trade)
    move,         \* MoveSoA
    divine,       \* DivineSoA
    psych,        \* PsychSoA
    tech,         \* TechSoA (destination of tech_diffusion)
    techs,        \* TechSoA (source of tech_diffusion)
    engine,       \* EngineSoA
    engineb,      \* EngineSoA of a second run, given the same calls
    env,          \* EnvSoA
    can_cast,     \* int *can_cast   of divine_meteor_cost / divine_terraform_cost
    hit_out,      \* int *hit_out    of combat_hit_roll
    dmg_mult_out, \* float *dmg_mult_out of combat_crit_roll
    unlock_flags, \* int *unlock_flags of tech_unlock_check
    miracle_out,  \* int *miracle_out of faith_miracle_check
    flock,        \* the flocking pass in progress: the iterations of its loop done so far
    end_flags,    \* int *end_flags of engine_end_condition_check
    game,         \* the globals of main.c: W, E, C and the selected power
    last          \* the call made last: [op |-> its name, ok |-> its indices were in range]

vars == <<pop, popd, faith, combat, econ, econb, move, divine, psych, tech,
          techs, engine, engineb, env,
          can_cast, hit_out, dmg_mult_out, unlock_flags,
          miracle_out, flock, end_flags, game, last>>

(***************************************************************************)
(* Bounds of the model.                                                    *)
(***************************************************************************)
NGods == 2       \* divine.count
NUnits == 2      \* combat.count
NFactions == 1   \* faith.count (smaller than divine.count on purpose)
NGroups == 1     \* pop.count, and the count of the migration target
NSellers == 2    \* count of the seller's EconSoA
NBuyers == 1     \* count of the buyer's EconSoA
MaxVolume == 10  \* trades stop once a trade_volume would leave +-MaxVolume.0
MaxDemand == 20  \* demand updates stop once a demand would pass MaxDemand.0
MaxStat == 200   \* blessings stop once max_hp would pass MaxStat.0
NCivs == 2       \* tech.count
MaxPts == 8      \* research stops once a research_pts holds MaxPts blocks
MaxLevel == 3    \* no civilisation at tech_level MaxLevel or over is unlocked
LiveMaxLevel == 56 \* the tick sequence stops once a tech_level reaches it
NScalar == 1     \* count of every container the scalar operations are called on
MaxAcc == 1      \* steering stops once an acceleration has left +-MaxAcc.0
MaxRolls == 2    \* chaos events stop MaxRolls rolls after a seeding
NSects == 2      \* faith.count of the miracle runs
MaxMana == 2     \* mana regeneration stops MaxMana above the initial mana
NRuns == 2       \* engine.count of the two runs
MaxEvents == 2   \* chaos events stop MaxEvents steps after a seeding
MaxChaos == 2    \* chaos events stop once chaos_mult has reached MaxChaos.0
MaxDrift == 2    \* small steps of a fraction stop MaxDrift steps from its start
MaxDecay == 2    \* decay stops MaxDecay hundredths under a whole level
MaxDiffused == 2  \* diffusion stops MaxDiffused blocks of points from zero
MaxEraLevel == 11  \* unlocks of the era runs stop at level MaxEraLevel

(***************************************************************************)
(* Fixed-point helpers.                                                    *)
(***************************************************************************)
One == 10 * 10

\* a * b for two quantities in hundredths
Mul(a, b) == (a * b) \div One

\* a * (num/den) for a float literal num/den
MulQ(a, num, den) == (a * num) \div den

\* no flocking pass is in progress
NoPass == [op |-> "none"]

\* the game of main.c is not running
NoGame == [on |-> FALSE]

Idx(n) == 0 .. (n - 1)

\* the index arguments a caller may pass for a container of n slots
Args(n) == (0 - 1) .. n

(***************************************************************************)
(* IEEE special values.  PInf and NInf order like the infinities under the *)
(* integer <; NaN is outside that order: every comparison with it is false.*)
(***************************************************************************)
PInf == 2 ^ 30
NInf == 0 - (2 ^ 30)
NaN == 0 - (2 ^ 30) - 1

\* the largest finite quantity of the model; it stands for the clamp limits
\* 1e6f and 1e9f, which lie beyond every quantity the model reaches
FMax == (2 ^ 30) - 1

IsNaN(a) == a = NaN
IsInf(a) == a = PInf \/ a = NInf
Finite(a) == ~IsNaN(a) /\ ~IsInf(a)

\* a < b and a > b on floats
FLt(a, b) == ~IsNaN(a) /\ ~IsNaN(b) /\ a < b
FGt(a, b) == ~IsNaN(a) /\ ~IsNaN(b) /\ a > b

Sign(a) == IF a > 0 THEN 1 ELSE IF a < 0 THEN 0 - 1 ELSE 0
SignedInf(sg) == IF sg > 0 THEN PInf ELSE NInf

\* a + b on floats
FAdd(a, b) ==
    IF IsNaN(a) \/ IsNaN(b) THEN NaN
    ELSE IF IsInf(a) /\ IsInf(b) THEN (IF a = b THEN a ELSE NaN)
    ELSE IF IsInf(a) THEN a
    ELSE IF IsInf(b) THEN b
    ELSE a + b

FNeg(a) == IF IsNaN(a) THEN NaN ELSE 0 - a

\* a - b on floats
FSub(a, b) == FAdd(a, FNeg(b))

\* a * b on floats (two quantities in hundredths)
FMul(a, b) ==
    IF IsNaN(a) \/ IsNaN(b) THEN NaN
    ELSE IF IsInf(a) \/ IsInf(b)
         THEN (IF a = 0 \/ b = 0 THEN NaN ELSE SignedInf(Sign(a) * Sign(b)))
    ELSE (a * b) \div One

\* a / b on floats: x/0 is an infinity, 0/0 is NaN
FDiv(a, b) ==
    IF IsNaN(a) \/ IsNaN(b) THEN NaN
    ELSE IF IsInf(a) /\ IsInf(b) THEN NaN
    ELSE IF IsInf(a) THEN SignedInf(Sign(a) * (IF b < 0 THEN 0 - 1 ELSE 1))
    ELSE IF IsInf(b) THEN 0
    ELSE IF b = 0 THEN (IF a = 0 THEN NaN ELSE SignedInf(Sign(a)))
    ELSE (a * One) \div b

\* a * (num/den) on floats, for a positive float literal num/den
FMulQ(a, num, den) == IF Finite(a) THEN (a * num) \div den ELSE a

(***************************************************************************)
(* static float clampf(float v, float lo, float hi)                        *)
(*   return v < lo ? lo : (v > hi ? hi : v);                               *)
(***************************************************************************)
clampf(v, lo, hi) == IF FLt(v, lo) THEN lo ELSE IF FGt(v, hi) THEN hi ELSE v

(***************************************************************************)
(* sqrtf on hundredths: the largest r with r*r <= 100*x; NaN below zero.   *)
(***************************************************************************)
RECURSIVE ISqrtIn(_, _, _)
ISqrtIn(n, lo, hi) ==
    IF lo >= hi THEN lo
    ELSE LET mid == (lo + hi + 1) \div 2
         IN  IF mid * mid <= n THEN ISqrtIn(n, mid, hi)
                               ELSE ISqrtIn(n, lo, mid - 1)

ISqrt(n) == ISqrtIn(n, 0, 46340)

sqrtf(x) ==
    IF IsNaN(x) \/ x < 0 THEN NaN
    ELSE IF x = PInf THEN PInf
    ELSE ISqrt(x * One)

\* the significand of a float: 24 bits
Significand == 2 ^ 24

(***************************************************************************)
(* uint32_t: the four bytes of the word, least significant first.  The     *)
(* arithmetic is modulo 2^32, as in C.                                     *)
(***************************************************************************)
\* the uint32_t of an int n >= 0
U32(n) == <<n % 256, (n \div 256) % 256, (n \div 65536) % 256,
            (n \div 16777216) % 256>>

\* a + b (mod 2^32)
U32Add(a, b) ==
    LET k1 == a[1] + b[1]
        k2 == a[2] + b[2] + (k1 \div 256)
        k3 == a[3] + b[3] + (k2 \div 256)
        k4 == a[4] + b[4] + (k3 \div 256)
    IN  <<k1 % 256, k2 % 256, k3 % 256, k4 % 256>>

\* a * b (mod 2^32)
U32Mul(a, b) ==
    LET k1 == a[1] * b[1]
        k2 == a[1] * b[2] + a[2] * b[1] + (k1 \div 256)
        k3 == a[1] * b[3] + a[2] * b[2] + a[3] * b[1] + (k2 \div 256)
        k4 == a[1] * b[4] + a[2] * b[3] + a[3] * b[2] + a[4] * b[1]
              + (k3 \div 256)
    IN  <<k1 % 256, k2 % 256, k3 % 256, k4 % 256>>

\* lcg_next(s) = s * 1664525u + 1013904223u
lcg_next(s) == U32Add(U32Mul(s, U32(1664525)), U32(1013904223))

\* s >> 8, the 24 bits lcg_float turns into its float
Top24(s) == s[2] + 256 * s[3] + 65536 * s[4]

\* lcg_float's result for the advanced state s, in hundredths
lcg_float(s) == (Top24(s) * One) \div Significand

\* lcg_float's result for the advanced state s is < chance
RollBelow(s, chance) ==
    IF IsNaN(chance) THEN FALSE
    ELSE IF chance <= 0 THEN FALSE
    ELSE IF chance >= One THEN TRUE
    ELSE Top24(s) * One < chance * Significand

\* the seed of a roll: (uint32_t)(index + 1) * salt
RollSeed(attacker, salt) == U32Mul(U32(attacker + 1), salt)

\* fast_inv_sqrt_scalar(x): 1/sqrt(x) for x > 0, which the bit trick and its
\* Newton step approximate to a fraction of a hundredth
fast_inv_sqrt_scalar(x) == FDiv(One, sqrtf(x))

(***************************************************************************)
(* 7. DIVINE POWERS                                                        *)
(***************************************************************************)
xDivine == <<pop, popd, faith, combat, econ, econb, move, psych, tech, techs,
             engine, hit_out, dmg_mult_out, unlock_flags,
    env, engineb, miracle_out, flock, end_flags, game>>
xDivineCombat == <<pop, popd, faith, econ, econb, move, psych, tech, techs,
                   engine, can_cast, hit_out, dmg_mult_out, unlock_flags,
    env, engineb, miracle_out, flock, end_flags, game>>

\* divine_energy_regen(d, f, dt)
divine_energy_regen(dt) ==
    /\ divine' = [divine EXCEPT !.energy = [i \in Idx(divine.count) |->
            LET favor == IF i < faith.count THEN faith.divine_favor[i] ELSE One
                gain  == Mul(Mul(divine.regen_rate[i], favor), dt)
            IN  clampf(divine.energy[i] + gain, 0, divine.energy_cap[i])]]
    /\ UNCHANGED <<can_cast>>
    /\ UNCHANGED xDivine

\* an off-by-one in the affordability test: >= written as >
divine_meteor_cost_strict(god) ==
    IF god < 0 \/ god >= divine.count
    THEN /\ can_cast' = 0
         /\ UNCHANGED divine
         /\ UNCHANGED xDivine
    ELSE IF divine.energy[god] > divine.meteor_cost[god]
    THEN /\ can_cast' = 1
         /\ divine' = [divine EXCEPT !.energy[god] =
                clampf(divine.energy[god] - divine.meteor_cost[god],
                       0, divine.energy_cap[god])]
         /\ UNCHANGED xDivine
    ELSE /\ can_cast' = 0
         /\ UNCHANGED divine
         /\ UNCHANGED xDivine

\* divine_meteor_cost(d, god, can_cast)
divine_meteor_cost(god) ==
    IF god < 0 \/ god >= divine.count
    THEN /\ can_cast' = 0
         /\ UNCHANGED divine
         /\ UNCHANGED xDivine
    ELSE IF divine.energy[god] >= divine.meteor_cost[god]
    THEN /\ can_cast' = 1
         /\ divine' = [divine EXCEPT !.energy[god] =
                clampf(divine.energy[god] - divine.meteor_cost[god],
                       0, divine.energy_cap[god])]
         /\ UNCHANGED xDivine
    ELSE /\ can_cast' = 0
         /\ UNCHANGED divine
         /\ UNCHANGED xDivine

\* divine_heal_apply(d, c, god, target_unit)
divine_heal_apply(god, target_unit) ==
    IF god < 0 \/ god >= divine.count
    THEN UNCHANGED <<divine, combat>> /\ UNCHANGED xDivineCombat
    ELSE IF target_unit < 0 \/ target_unit >= combat.count
    THEN UNCHANGED <<divine, combat>> /\ UNCHANGED xDivineCombat
    ELSE /\ combat' = [combat EXCEPT !.hp[target_unit] =
                clampf(FAdd(combat.hp[target_unit], divine.heal_amount[god]),
                       0, combat.max_hp[target_unit])]
         /\ divine' = [divine EXCEPT !.heal_amount[god] =
                clampf(FMul(divine.heal_amount[god],
                            FSub(One, divine.heal_decay[god])),
                       One, 1000000 * One)]
         /\ UNCHANGED xDivineCombat

\* divine_terraform_cost without the clamp of the energy it writes
divine_terraform_cost_unclamped(god, tiles) ==
    IF god < 0 \/ god >= divine.count
    THEN /\ can_cast' = 0
         /\ UNCHANGED divine
         /\ UNCHANGED xDivine
    ELSE LET total == divine.terraform_cost[god] * tiles
         IN  IF divine.energy[god] >= total
             THEN /\ can_cast' = 1
                  /\ divine' = [divine EXCEPT !.energy[god] =
                         divine.energy[god] - total]
                  /\ UNCHANGED xDivine
             ELSE /\ can_cast' = 0
                  /\ UNCHANGED divine
                  /\ UNCHANGED xDivine

\* divine_terraform_cost(d, god, tiles, can_cast); tiles is an int, total a float
divine_terraform_cost(god, tiles) ==
    IF god < 0 \/ god >= divine.count
    THEN /\ can_cast' = 0
         /\ UNCHANGED divine
         /\ UNCHANGED xDivine
    ELSE LET total == divine.terraform_cost[god] * tiles
         IN  IF divine.energy[god] >= total
             THEN /\ can_cast' = 1
                  /\ divine' = [divine EXCEPT !.energy[god] =
                         clampf(divine.energy[god] - total, 0, divine.energy_cap[god])]
                  /\ UNCHANGED xDivine
             ELSE /\ can_cast' = 0
                  /\ UNCHANGED divine
                  /\ UNCHANGED xDivine

\* the energy divine_smite takes: smite_power[god] * 0.1f
SmiteCost(god) == MulQ(divine.smite_power[god], 1, 10)

\* the energy divine_blessing takes: the literal 10.0f
BlessingCost == 10 * One

\* a smite that takes its energy before it looks at the target
divine_smite_pays_first(god, target) ==
    IF god < 0 \/ god >= divine.count
    THEN UNCHANGED <<divine, combat>> /\ UNCHANGED xDivineCombat
    ELSE LET paid == [divine EXCEPT !.energy[god] =
                        clampf(divine.energy[god] - SmiteCost(god),
                               0, divine.energy_cap[god])]
         IN  IF target < 0 \/ target >= combat.count
             THEN divine' = paid /\ UNCHANGED combat /\ UNCHANGED xDivineCombat
             ELSE LET raw == divine.smite_power[god]
                             - MulQ(combat.armor[target], 25, 100)
                      dmg == IF raw < One THEN One ELSE raw
                  IN  /\ combat' = [combat EXCEPT !.hp[target] =
                             clampf(combat.hp[target] - dmg,
                                    0, combat.max_hp[target])]
                      /\ divine' = paid
                      /\ UNCHANGED xDivineCombat

\* divine_smite(d, c, god, target)
divine_smite(god, target) ==
    IF god < 0 \/ god >= divine.count
    THEN UNCHANGED <<divine, combat>> /\ UNCHANGED xDivineCombat
    ELSE IF target < 0 \/ target >= combat.count
    THEN UNCHANGED <<divine, combat>> /\ UNCHANGED xDivineCombat
    ELSE LET raw == divine.smite_power[god] - MulQ(combat.armor[target], 25, 100)
             dmg == IF raw < One THEN One ELSE raw
         IN  /\ combat' = [combat EXCEPT !.hp[target] =
                    clampf(combat.hp[target] - dmg, 0, combat.max_hp[target])]
             /\ divine' = [divine EXCEPT !.energy[god] =
                    clampf(divine.energy[god] - SmiteCost(god),
                           0, divine.energy_cap[god])]
             /\ UNCHANGED xDivineCombat

\* divine_blessing without the clamp of hp to the blessed capacity
divine_blessing_capacity_only(god, target) ==
    IF god < 0 \/ god >= divine.count
    THEN UNCHANGED <<divine, combat>> /\ UNCHANGED xDivineCombat
    ELSE IF target < 0 \/ target >= combat.count
    THEN UNCHANGED <<divine, combat>> /\ UNCHANGED xDivineCombat
    ELSE LET mult   == divine.blessing_mult[god]
             new_mx == Mul(combat.max_hp[target], mult)
         IN  /\ combat' = [combat EXCEPT
                    !.base_atk[target] = Mul(combat.base_atk[target], mult),
                    !.max_hp[target]   = new_mx]
             /\ divine' = [divine EXCEPT !.energy[god] =
                    clampf(divine.energy[god] - BlessingCost,
                           0, divine.energy_cap[god])]
             /\ UNCHANGED xDivineCombat

\* divine_blessing(d, c, god, target)
divine_blessing(god, target) ==
    IF god < 0 \/ god >= divine.count
    THEN UNCHANGED <<divine, combat>> /\ UNCHANGED xDivineCombat
    ELSE IF target < 0 \/ target >= combat.count
    THEN UNCHANGED <<divine, combat>> /\ UNCHANGED xDivineCombat
    ELSE LET mult   == divine.blessing_mult[god]
             new_mx == Mul(combat.max_hp[target], mult)
         IN  /\ combat' = [combat EXCEPT
                    !.base_atk[target] = Mul(combat.base_atk[target], mult),
                    !.max_hp[target]   = new_mx,
                    !.hp[target]       = clampf(Mul(combat.hp[target], mult), 0, new_mx)]
             /\ divine' = [divine EXCEPT !.energy[god] =
                    clampf(divine.energy[god] - BlessingCost,
                           0, divine.energy_cap[god])]
             /\ UNCHANGED xDivineCombat

\* divine_energy_cap(d)
divine_energy_cap ==
    /\ divine' = [divine EXCEPT !.energy = [i \in Idx(divine.count) |->
            clampf(divine.energy[i], 0, divine.energy_cap[i])]]
    /\ UNCHANGED <<can_cast>>
    /\ UNCHANGED xDivine

\* divine_favor_scale(d, f): the loop breaks at the first i >= f->count
divine_favor_scale ==
    /\ divine' = [divine EXCEPT !.regen_rate = [i \in Idx(divine.count) |->
            IF i >= faith.count THEN divine.regen_rate[i]
            ELSE FMul(divine.regen_rate[i],
                      FAdd(One \div 2, FMulQ(faith.divine_favor[i], 1, 2)))]]
    /\ UNCHANGED <<can_cast>>
    /\ UNCHANGED xDivine

(***************************************************************************)
(* 1. POPULATION DYNAMICS                                                  *)
(***************************************************************************)
xPop == <<popd, faith, combat, econ, econb, move, divine, psych, tech, techs,
          engine, can_cast, hit_out, dmg_mult_out, unlock_flags,
    env, engineb, miracle_out, flock, end_flags, game>>
xPopBoth == <<faith, combat, econ, econb, move, divine, psych, tech, techs,
              engine, can_cast, hit_out, dmg_mult_out, unlock_flags,
    env, engineb, miracle_out, flock, end_flags, game>>

\* a <= b on floats
FLe(a, b) == ~IsNaN(a) /\ ~IsNaN(b) /\ a <= b

\* pop_logistic_growth(p, dt)
pop_logistic_growth(dt) ==
    /\ pop' = [pop EXCEPT !.population = [i \in Idx(pop.count) |->
            LET n  == pop.population[i]
                k  == pop.carrying_cap[i]
                r  == pop.growth_rate[i]
                dn == FMul(FMul(r, n), FSub(One, FDiv(n, k)))
            IN  clampf(FAdd(n, FMul(dn, dt)), 0, k)]]
    /\ UNCHANGED xPop

\* the compartments of group i after one SIR step, as pop_sir_step stores them
SirStep(i, dt) ==
    LET n       == pop.population[i]
        s0      == pop.susceptible[i]
        inf0    == pop.infected[i]
        r0      == pop.recovered[i]
        new_inf == FDiv(FMul(FMul(pop.beta[i], s0), inf0), n)
        new_rec == FMul(pop.gamma_rec[i], inf0)
        s       == FSub(s0, FMul(new_inf, dt))
        inf     == FAdd(inf0, FMul(FSub(new_inf, new_rec), dt))
        r       == FAdd(r0, FMul(new_rec, dt))
        total   == FAdd(FAdd(s, inf), r)
    IN  IF FLe(n, 0) THEN <<s0, inf0, r0>>
        ELSE IF FGt(total, 0)
        THEN <<clampf(FDiv(s, total), 0, One),
               clampf(FDiv(inf, total), 0, One),
               clampf(FDiv(r, total), 0, One)>>
        ELSE <<s0, inf0, r0>>

\* pop_sir_step(p, dt)
pop_sir_step(dt) ==
    /\ pop' = [pop EXCEPT
            !.susceptible = [i \in Idx(pop.count) |-> SirStep(i, dt)[1]],
            !.infected    = [i \in Idx(pop.count) |-> SirStep(i, dt)[2]],
            !.recovered   = [i \in Idx(pop.count) |-> SirStep(i, dt)[3]]]
    /\ UNCHANGED xPop

\* pop_starvation(p, dt)
pop_starvation(dt) ==
    /\ pop' = [pop EXCEPT !.population = [i \in Idx(pop.count) |->
            LET deficit == FSub(pop.food_threshold[i], pop.food_supply[i])
                frac    == FDiv(deficit, pop.food_threshold[i])
                n       == pop.population[i]
            IN  IF FLe(deficit, 0) THEN n
                ELSE clampf(FSub(n, FMul(FMulQ(FMul(n, frac), 5, 100), dt)),
                            0, pop.carrying_cap[i])]]
    /\ UNCHANGED xPop

\* births of group i: birth_coeff * age_adult * population * dt
Births(i, dt) ==
    FMul(FMul(FMulQ(pop.age_adult[i], 3, 100), pop.population[i]), dt)

\* pop_birth_rate(p, dt)
pop_birth_rate(dt) ==
    /\ pop' = [pop EXCEPT
            !.age_young = [i \in Idx(pop.count) |->
                clampf(FAdd(pop.age_young[i],
                            FDiv(Births(i, dt), FAdd(pop.population[i], One))),
                       0, One)],
            !.population = [i \in Idx(pop.count) |->
                clampf(FAdd(pop.population[i], Births(i, dt)),
                       0, pop.carrying_cap[i])]]
    /\ UNCHANGED xPop

\* pop_death_rate(p, dt)
pop_death_rate(dt) ==
    /\ pop' = [pop EXCEPT !.population = [i \in Idx(pop.count) |->
            LET rate   == FAdd(One \div 100, FMulQ(pop.age_elder[i], 4, 100))
                deaths == FMul(FMul(rate, pop.population[i]), dt)
            IN  clampf(FSub(pop.population[i], deaths), 0, pop.carrying_cap[i])]]
    /\ UNCHANGED xPop

\* pop_migration(src, dst, idx, rate, dt)
pop_migration(idx, rate, dt) ==
    IF idx < 0 \/ idx >= pop.count \/ idx >= popd.count
    THEN UNCHANGED <<pop, popd>> /\ UNCHANGED xPopBoth
    ELSE LET amount == FMul(FMul(rate, pop.population[idx]), dt)
         IN  /\ pop' = [pop EXCEPT !.population[idx] =
                    clampf(FSub(pop.population[idx], amount),
                           0, pop.carrying_cap[idx])]
             /\ popd' = [popd EXCEPT !.population[idx] =
                    clampf(FAdd(popd.population[idx], amount),
                           0, popd.carrying_cap[idx])]
             /\ UNCHANGED xPopBoth

\* pop_carrying_cap_pressure(p)
pop_carrying_cap_pressure ==
    /\ pop' = [pop EXCEPT
            !.population = [i \in Idx(pop.count) |->
                IF FGt(pop.population[i], pop.carrying_cap[i])
                THEN pop.carrying_cap[i] ELSE pop.population[i]],
            !.food_threshold = [i \in Idx(pop.count) |->
                FMulQ(pop.carrying_cap[i], 1, 10)]]
    /\ UNCHANGED xPop

\* pop_epidemic_mortality(p, mortality_rate, dt)
pop_epidemic_mortality(mortality_rate, dt) ==
    /\ pop' = [pop EXCEPT !.population = [i \in Idx(pop.count) |->
            LET deaths == FMul(FMul(FMul(mortality_rate, pop.infected[i]),
                                    pop.population[i]), dt)
            IN  clampf(FSub(pop.population[i], deaths), 0, pop.carrying_cap[i])]]
    /\ UNCHANGED xPop

\* pop_recovery_bonus(p, dt)
pop_recovery_bonus(dt) ==
    /\ pop' = [pop EXCEPT !.population = [i \in Idx(pop.count) |->
            LET gain == FMul(FMul(FMulQ(pop.recovered[i], 5, 1000),
                                  pop.population[i]), dt)
            IN  clampf(FAdd(pop.population[i], gain), 0, pop.carrying_cap[i])]]
    /\ UNCHANGED xPop

(***************************************************************************)
(* 4. ECONOMY & RESOURCES                                                  *)
(***************************************************************************)
xEcon == <<pop, popd, faith, combat, econb, move, divine, psych, tech, techs,
           engine, can_cast, hit_out, dmg_mult_out, unlock_flags,
    env, engineb, miracle_out, flock, end_flags, game>>
xEconBoth == <<pop, popd, faith, combat, move, divine, psych, tech, techs,
               engine, can_cast, hit_out, dmg_mult_out, unlock_flags,
    env, engineb, miracle_out, flock, end_flags, game>>

\* #define MAX_PRICE 1000.0f
MAX_PRICE == 1000

\* econ_gather(e, dt)
econ_gather(dt) ==
    /\ econ' = [econ EXCEPT !.resource = [i \in Idx(econ.count) |->
            clampf(econ.resource[i] + Mul(econ.gather_rate[i], dt),
                   0, econ.max_resource[i])]]
    /\ UNCHANGED xEcon

\* econ_deplete(e, dt)
econ_deplete(dt) ==
    LET left == [i \in Idx(econ.count) |->
            clampf(econ.resource[i] - Mul(econ.depletion_rate[i], dt),
                   0, econ.max_resource[i])]
    IN  /\ econ' = [econ EXCEPT !.resource = left, !.supply = left]
        /\ UNCHANGED xEcon

\* the new price of pool i, before it is clamped
RawPrice(i) ==
    LET sup  == IF FGt(econ.supply[i], One) THEN econ.supply[i] ELSE One
        base == IF FGt(econ.price[i], 0) THEN econ.price[i] ELSE One
    IN  FMul(base, sqrtf(FDiv(econ.demand[i], sup)))

\* the clamp forgotten: the price is stored as computed
econ_market_price_unclamped ==
    /\ econ' = [econ EXCEPT !.price = [i \in Idx(econ.count) |-> RawPrice(i)]]
    /\ UNCHANGED xEcon

\* econ_market_price(e)
econ_market_price ==
    /\ econ' = [econ EXCEPT !.price = [i \in Idx(econ.count) |->
            clampf(RawPrice(i), One \div 100, MAX_PRICE * One)]]
    /\ UNCHANGED xEcon

\* econ_trade(seller, si, buyer, bi, amount)
econ_trade(si, bi, amount) ==
    IF si < 0 \/ si >= econ.count
    THEN UNCHANGED <<econ, econb>> /\ UNCHANGED xEconBoth
    ELSE IF bi < 0 \/ bi >= econb.count
    THEN UNCHANGED <<econ, econb>> /\ UNCHANGED xEconBoth
    ELSE LET actual == IF amount < econ.resource[si] THEN amount
                                                     ELSE econ.resource[si]
         IN  /\ econ' = [econ EXCEPT
                    !.resource[si] = clampf(econ.resource[si] - actual,
                                            0, econ.max_resource[si]),
                    !.trade_volume[si] = econ.trade_volume[si] + actual]
             /\ econb' = [econb EXCEPT
                    !.resource[bi] = clampf(econb.resource[bi] + actual,
                                            0, econb.max_resource[bi]),
                    !.trade_volume[bi] = econb.trade_volume[bi] + actual]
             /\ UNCHANGED xEconBoth

\* econ_demand_update(e, population_delta)
econ_demand_update(population_delta) ==
    /\ econ' = [econ EXCEPT !.demand = [i \in Idx(econ.count) |->
            clampf(econ.demand[i] + MulQ(population_delta, 1, 100),
                   0, FMax)]]
    /\ UNCHANGED xEcon

(***************************************************************************)
(* 9. PROGRESSION & TECH                                                   *)
(*                                                                         *)
(* research_pts, research_rate and tech_cost are counted in blocks of 64   *)
(* points, so that the largest cost, 100 * exp(20), stays below FMax.  A   *)
(* float keeps 24 significant bits whatever the unit, a power of two:      *)
(* RoundF32 rounds a count of blocks as the store to a float array rounds  *)
(* the points.  tech_level, the timers and the multipliers are hundredths. *)
(***************************************************************************)
xTech == <<pop, popd, faith, combat, econ, econb, move, divine, psych, techs,
           engine, can_cast, hit_out, dmg_mult_out,
    env, engineb, miracle_out, flock, end_flags, game>>

\* the spacing of the floats around n >= 0: the least power of two q
\* with n / q < 2^24
RECURSIVE F32Quantum(_, _)
F32Quantum(n, q) ==
    IF n \div q < Significand THEN q ELSE F32Quantum(n, 2 * q)

\* n >= 0 rounded to the nearest float, ties to the even significand
RoundF32Pos(n) ==
    LET q    == F32Quantum(n, 1)
        r    == n % q
        base == n - r
    IN  IF 2 * r > q \/ (2 * r = q /\ (base \div q) % 2 = 1)
        THEN base + q ELSE base

\* the value a float variable holds after n is stored to it
RoundF32(n) ==
    IF ~Finite(n) THEN n
    ELSE IF n < 0 THEN 0 - RoundF32Pos(0 - n) ELSE RoundF32Pos(n)

\* 100.0f * expf(x) in blocks of 64 points, for x = 0.0, 0.1, ... 20.0
ExpTable ==
    <<
       2, 2, 2, 2, 2, 3, 3, 3,
       3, 4, 4, 5, 5, 6, 6, 7,
       8, 9, 9, 10, 12, 13, 14, 16,
       17, 19, 21, 23, 26, 28, 31, 35,
       38, 42, 47, 52, 57, 63, 70, 77,
       85, 94, 104, 115, 127, 141, 155, 172,
       190, 210, 232, 256, 283, 313, 346, 382,
       423, 467, 516, 570, 630, 697, 770, 851,
       940, 1039, 1149, 1269, 1403, 1550, 1713, 1894,
       2093, 2313, 2556, 2825, 3122, 3451, 3813, 4215,
       4658, 5148, 5689, 6287, 6949, 7679, 8487, 9380,
       10366, 11456, 12661, 13993, 15464, 17091, 18888, 20875,
       23070, 25496, 28178, 31141, 34416, 38036, 42036, 46457,
       51343, 56743, 62711, 69306, 76595, 84651, 93553, 103392,
       114266, 126284, 139565, 154243, 170465, 188393, 208207, 230104,
       254304, 281050, 310608, 343275, 379377, 419277, 463373, 512106,
       565965, 625488, 691271, 763973, 844321, 933118, 1031255, 1139714,
       1259578, 1392048, 1538452, 1700252, 1879069, 2076693, 2295100, 2536478,
       2803243, 3098061, 3423889, 3783984, 4181946, 4621762, 5107844, 5645038,
       6238728, 6894864, 7619998, 8421404, 9307095, 10285924, 11367709, 12563266,
       13884548, 15344805, 16958638, 18742164, 20713304, 22891748, 25299304, 27960066,
       30900666, 34150464, 37742112, 41711504, 46098356, 50946484, 56304708, 62226224,
       68770640, 76003344, 83996560, 92830584, 102593696, 113383624, 125308328, 138487168,
       153051760, 169148416, 186937984, 206598496, 228326304, 252340176, 278878592, 308208640,
       340623360, 376446464, 416037824, 459793056, 508150144, 561592960, 620656448, 685930368,
       758070592
    >>

\* 100.0f * expf(x), x in hundredths: the table up to 20.0, a finite value
\* beyond the table while the product fits a float, +inf from there on
HundredExp(x) ==
    IF IsNaN(x) THEN NaN
    ELSE IF x = PInf THEN PInf
    ELSE IF x < 0 THEN 1
    ELSE IF x <= 20 * One THEN ExpTable[(x \div 10) + 1]
    ELSE IF x <= 8411 THEN FMax
    ELSE PInf

\* tech_research_tick(t, p, dt)
tech_research_tick(dt) ==
    /\ tech' = [tech EXCEPT !.research_pts = [i \in Idx(tech.count) |->
            LET bonus  == IF i < pop.count THEN tech.pop_bonus[i] ELSE One
                mult   == IF FGt(tech.golden_age_timer[i], 0)
                          THEN tech.golden_age_mult[i] ELSE One
                gained == FMul(FMul(FMul(tech.research_rate[i], bonus), mult), dt)
            IN  RoundF32(FAdd(tech.research_pts[i], gained))]]
    /\ UNCHANGED unlock_flags
    /\ UNCHANGED xTech

\* tech_cost_scale without the clamp of the exponent
tech_cost_scale_unclamped ==
    /\ tech' = [tech EXCEPT !.tech_cost = [i \in Idx(tech.count) |->
            HundredExp(FMulQ(tech.tech_level[i], 3, 10))]]
    /\ UNCHANGED unlock_flags
    /\ UNCHANGED xTech

\* tech_cost_scale(t)
tech_cost_scale ==
    /\ tech' = [tech EXCEPT !.tech_cost = [i \in Idx(tech.count) |->
            LET exponent == clampf(FMulQ(tech.tech_level[i], 3, 10), 0, 20 * One)
            IN  HundredExp(exponent)]]
    /\ UNCHANGED unlock_flags
    /\ UNCHANGED xTech

\* research_pts[i] >= tech_cost[i]
Unlocks(i) == FLe(tech.tech_cost[i], tech.research_pts[i])

\* tech_unlock_check that keeps unlocking while the points cover the cost
tech_unlock_check_repeated ==
    /\ tech' = [tech EXCEPT
            !.research_pts = [i \in Idx(tech.count) |->
                IF Unlocks(i) /\ FGt(tech.tech_cost[i], 0)
                THEN tech.research_pts[i] % tech.tech_cost[i]
                ELSE tech.research_pts[i]],
            !.tech_level = [i \in Idx(tech.count) |->
                IF Unlocks(i) /\ FGt(tech.tech_cost[i], 0)
                THEN FAdd(tech.tech_level[i],
                          (tech.research_pts[i] \div tech.tech_cost[i]) * One)
                ELSE tech.tech_level[i]]]
    /\ unlock_flags' = [i \in Idx(tech.count) |-> IF Unlocks(i) THEN 1 ELSE 0]
    /\ UNCHANGED xTech

\* tech_unlock_check(t, unlock_flags)
tech_unlock_check ==
    /\ tech' = [tech EXCEPT
            !.research_pts = [i \in Idx(tech.count) |->
                IF Unlocks(i)
                THEN RoundF32(FSub(tech.research_pts[i], tech.tech_cost[i]))
                ELSE tech.research_pts[i]],
            !.tech_level = [i \in Idx(tech.count) |->
                IF Unlocks(i) THEN FAdd(tech.tech_level[i], One)
                ELSE tech.tech_level[i]]]
    /\ unlock_flags' = [i \in Idx(tech.count) |-> IF Unlocks(i) THEN 1 ELSE 0]
    /\ UNCHANGED xTech

\* tech_golden_age_tick(t, dt)
tech_golden_age_tick(dt) ==
    /\ tech' = [tech EXCEPT !.golden_age_timer = [i \in Idx(tech.count) |->
            IF FGt(tech.golden_age_timer[i], 0)
            THEN clampf(FSub(tech.golden_age_timer[i], dt), 0, 1000000 * One)
            ELSE tech.golden_age_timer[i]]]
    /\ UNCHANGED unlock_flags
    /\ UNCHANGED xTech

\* tech_golden_age_trigger without the test that no golden age is running
tech_golden_age_trigger_restarting(nation, threshold) ==
    /\ IF nation < 0 \/ nation >= tech.count
       THEN UNCHANGED tech
       ELSE IF FLe(threshold, tech.culture[nation])
            THEN tech' = [tech EXCEPT !.golden_age_timer[nation] = 500 * One,
                                      !.golden_age_mult[nation] = 2 * One]
            ELSE UNCHANGED tech
    /\ UNCHANGED unlock_flags
    /\ UNCHANGED xTech

\* tech_golden_age_trigger(t, nation, threshold)
tech_golden_age_trigger(nation, threshold) ==
    /\ IF nation < 0 \/ nation >= tech.count
       THEN UNCHANGED tech
       ELSE IF FLe(threshold, tech.culture[nation])
               /\ FLe(tech.golden_age_timer[nation], 0)
            THEN tech' = [tech EXCEPT !.golden_age_timer[nation] = 500 * One,
                                      !.golden_age_mult[nation] = 2 * One]
            ELSE UNCHANGED tech
    /\ UNCHANGED unlock_flags
    /\ UNCHANGED xTech

\* floorf(tech_level / 10.0f)
ExpectedEra(i) ==
    IF Finite(tech.tech_level[i])
    THEN (tech.tech_level[i] \div (10 * One)) * One
    ELSE tech.tech_level[i]

\* tech_era_advance that stores the era of the current level unconditionally
tech_era_advance_recomputed ==
    /\ tech' = [tech EXCEPT !.era = [i \in Idx(tech.count) |-> ExpectedEra(i)]]
    /\ UNCHANGED unlock_flags
    /\ UNCHANGED xTech

\* tech_era_advance(t)
tech_era_advance ==
    /\ tech' = [tech EXCEPT !.era = [i \in Idx(tech.count) |->
            IF FGt(ExpectedEra(i), tech.era[i])
            THEN ExpectedEra(i) ELSE tech.era[i]]]
    /\ UNCHANGED unlock_flags
    /\ UNCHANGED xTech

\* logf at four decimal places: ln(x) for x in [0.5, 2] as
\* 2 * (z + z^3/3 + z^5/5 + ...), z = (x - 1) / (x + 1)
LogScale == 10000
Ln2Scaled == 6931
LogTerms == 9
RECURSIVE AtanhSum(_, _, _, _)
AtanhSum(pw, z2, k, left) ==
    IF left = 0 THEN 0
    ELSE (pw \div k) + AtanhSum((pw * z2) \div LogScale, z2, k + 2, left - 1)

\* ln(x / LogScale) * LogScale for x > 0, halving or doubling x into [0.5, 2]
RECURSIVE LnScaled(_)
LnScaled(x) ==
    IF x > 2 * LogScale THEN Ln2Scaled + LnScaled(x \div 2)
    ELSE IF 2 * x < LogScale THEN LnScaled(2 * x) - Ln2Scaled
    ELSE LET z  == ((x - LogScale) * LogScale) \div (x + LogScale)
             z2 == (z * z) \div LogScale
         IN  2 * AtanhSum(z, z2, 1, LogTerms)

\* logf(a): NaN below 0, -inf at 0, else the logarithm rounded to hundredths
logf(a) ==
    IF IsNaN(a) \/ FLt(a, 0) THEN NaN
    ELSE IF a = 0 THEN NInf
    ELSE IF a = PInf THEN PInf
    ELSE (LnScaled(a * (LogScale \div One)) + (LogScale \div One) \div 2)
             \div (LogScale \div One)

\* tech_pop_research_bonus(t, p)
tech_pop_research_bonus ==
    /\ LET n == IF tech.count < pop.count THEN tech.count ELSE pop.count
       IN  tech' = [tech EXCEPT !.pop_bonus = [i \in Idx(tech.count) |->
               IF i < n
               THEN logf(FAdd(One, FDiv(pop.population[i], 1000 * One)))
               ELSE tech.pop_bonus[i]]]
    /\ UNCHANGED unlock_flags
    /\ UNCHANGED xTech

\* tech_decay(t, dt)
tech_decay(dt) ==
    /\ tech' = [tech EXCEPT !.tech_level = [i \in Idx(tech.count) |->
            IF FLe(tech.research_pts[i], 0)
            THEN clampf(FSub(tech.tech_level[i], FMulQ(dt, 1, 10000)),
                        0, 1000000 * One)
            ELSE tech.tech_level[i]]]
    /\ UNCHANGED unlock_flags
    /\ UNCHANGED xTech

\* tech_diffusion(src, dst, si, di, rate, dt)
tech_diffusion(si, di, rate, dt) ==
    /\ IF si < 0 \/ si >= techs.count THEN UNCHANGED tech
       ELSE IF di < 0 \/ di >= tech.count THEN UNCHANGED tech
       ELSE tech' = [tech EXCEPT !.research_pts[di] =
                RoundF32(FAdd(tech.research_pts[di],
                              FMul(FMul(rate, techs.tech_level[si]), dt)))]
    /\ UNCHANGED unlock_flags
    /\ UNCHANGED xTech

(***************************************************************************)
(* 2. FAITH & RELIGION  (the scalar operation)                             *)
(***************************************************************************)
xFaith == <<pop, popd, combat, econ, econb, move, divine, psych, tech, techs,
            engine, can_cast, hit_out, dmg_mult_out, unlock_flags,
    env, engineb, miracle_out, flock, end_flags, game>>

\* what faith_miracle_check leaves alone
xFaithCheck == <<pop, popd, combat, econ, econb, move, divine, psych, tech,
                 techs, engine, engineb, env,
          can_cast, hit_out, dmg_mult_out,
                 unlock_flags, flock, end_flags, game>>

\* faith_generate(f, dt)
faith_generate(dt) ==
    /\ faith' = [faith EXCEPT !.faith_level = [i \in Idx(faith.count) |->
            LET gain == FMul(FMulQ(FMul(faith.devotee_count[i],
                                        FAdd(One, FMulQ(faith.temple_count[i], 1, 10))),
                                   1, 1000), dt)
            IN  clampf(FAdd(faith.faith_level[i], gain), 0, One)]]
    /\ UNCHANGED xFaith

\* faith_mana_regen(f, dt)
faith_mana_regen(dt) ==
    /\ faith' = [faith EXCEPT !.mana = [i \in Idx(faith.count) |->
            LET gain == FMul(FMul(faith.mana_regen[i], faith.divine_favor[i]), dt)
            IN  clampf(FAdd(faith.mana[i], gain), 0, 1000 * One)]]
    /\ UNCHANGED xFaith

\* faith_heresy_spread(f, dt)
faith_heresy_spread(dt) ==
    /\ faith' = [faith EXCEPT !.faith_level = [i \in Idx(faith.count) |->
            LET heresy == FSub(One, faith.faith_level[i])
                d == FMul(FMul(FMul(faith.heresy_rate[i],
                                    FSub(One, faith.faith_level[i])),
                               heresy), FSub(One, heresy))
            IN  FSub(One, clampf(FAdd(heresy, FMul(d, dt)), 0, One))]]
    /\ UNCHANGED xFaith

\* 2654435761u
MiracleSalt == <<177, 121, 55, 158>>

\* faith_miracle_check whose seed also takes in the faction's stored mana
faith_miracle_check_stateful ==
    /\ miracle_out' = [i \in Idx(faith.count) |->
            IF RollBelow(lcg_next(U32Add(RollSeed(i, MiracleSalt),
                                         U32(faith.mana[i]))),
                         FMul(faith.miracle_chance[i], faith.divine_favor[i]))
            THEN 1 ELSE 0]
    /\ UNCHANGED faith
    /\ UNCHANGED xFaithCheck

\* faith_miracle_check(f, miracle_out)
faith_miracle_check ==
    /\ miracle_out' = [i \in Idx(faith.count) |->
            IF RollBelow(lcg_next(RollSeed(i, MiracleSalt)),
                         FMul(faith.miracle_chance[i], faith.divine_favor[i]))
            THEN 1 ELSE 0]
    /\ UNCHANGED faith
    /\ UNCHANGED xFaithCheck

\* faith_schism_accumulate(f, dt)
faith_schism_accumulate(dt) ==
    /\ faith' = [faith EXCEPT !.schism_risk = [i \in Idx(faith.count) |->
            LET rise == FMul(FMulQ(FSub(One, faith.faith_level[i]), 1, 100), dt)
            IN  clampf(FAdd(faith.schism_risk[i], rise), 0, One)]]
    /\ UNCHANGED xFaith

\* faith_divine_favor_update(f, piety_delta)
faith_divine_favor_update(piety_delta) ==
    /\ faith' = [faith EXCEPT !.divine_favor = [i \in Idx(faith.count) |->
            clampf(FAdd(faith.divine_favor[i], piety_delta), 0, One)]]
    /\ UNCHANGED xFaith

\* faith_temple_bonus(f)
faith_temple_bonus ==
    /\ faith' = [faith EXCEPT !.miracle_chance = [i \in Idx(faith.count) |->
            FMulQ(FAdd(One, FMulQ(faith.temple_count[i], 5, 100)), 1, 100)]]
    /\ UNCHANGED xFaith

\* faith_ritual_cost(f, idx, ritual_mana)
faith_ritual_cost(idx, ritual_mana) ==
    /\ IF idx < 0 \/ idx >= faith.count THEN UNCHANGED faith
       ELSE faith' = [faith EXCEPT !.mana[idx] =
                clampf(FSub(faith.mana[idx], ritual_mana), 0, 1000 * One)]
    /\ UNCHANGED xFaith

(***************************************************************************)
(* 3. COMBAT & WARFARE  (the scalar operations)                            *)
(***************************************************************************)
xCombat == <<pop, popd, faith, econ, econb, move, divine, psych, tech, techs,
             engine, can_cast, unlock_flags,
    env, engineb, miracle_out, flock, end_flags, game>>

\* combat_apply_damage(c, attacker, defender, raw_dmg)
combat_apply_damage(attacker, defender, raw_dmg) ==
    /\ IF attacker < 0 \/ attacker >= combat.count THEN UNCHANGED combat
       ELSE IF defender < 0 \/ defender >= combat.count THEN UNCHANGED combat
       ELSE LET raw == FSub(raw_dmg, FMulQ(combat.armor[defender], 1, 2))
                dmg == IF FLt(raw, One) THEN One ELSE raw
            IN  combat' = [combat EXCEPT !.hp[defender] =
                    clampf(FSub(combat.hp[defender], dmg),
                           0, combat.max_hp[defender])]
    /\ UNCHANGED <<hit_out, dmg_mult_out>>
    /\ UNCHANGED xCombat

\* 2246822519u and 3266489917u
HitSalt == <<119, 202, 235, 133>>
CritSalt == <<61, 174, 178, 194>>

\* combat_hit_roll(c, attacker, hit_out)
combat_hit_roll(attacker) ==
    /\ IF attacker < 0 \/ attacker >= combat.count THEN hit_out' = 0
       ELSE hit_out' = IF RollBelow(lcg_next(RollSeed(attacker, HitSalt)),
                                    combat.hit_chance[attacker])
                       THEN 1 ELSE 0
    /\ UNCHANGED <<combat, dmg_mult_out>>
    /\ UNCHANGED xCombat

\* combat_crit_roll(c, attacker, dmg_mult_out)
combat_crit_roll(attacker) ==
    /\ IF attacker < 0 \/ attacker >= combat.count THEN dmg_mult_out' = One
       ELSE dmg_mult_out' = IF RollBelow(lcg_next(RollSeed(attacker, CritSalt)),
                                         combat.crit_chance[attacker])
                            THEN combat.crit_mult[attacker] ELSE One
    /\ UNCHANGED <<combat, hit_out>>
    /\ UNCHANGED xCombat

\* combat_morale_decay(c, dt)
combat_morale_decay(dt) ==
    /\ combat' = [combat EXCEPT !.morale = [i \in Idx(combat.count) |->
            clampf(FSub(combat.morale[i], FMul(combat.morale_decay[i], dt)),
                   0, One)]]
    /\ UNCHANGED <<hit_out, dmg_mult_out>>
    /\ UNCHANGED xCombat

\* combat_hp_regen(c, regen_rate, dt)
combat_hp_regen(regen_rate, dt) ==
    /\ combat' = [combat EXCEPT !.hp = [i \in Idx(combat.count) |->
            LET heal == FMul(FMul(regen_rate, combat.max_hp[i]), dt)
            IN  clampf(FAdd(combat.hp[i], heal), 0, combat.max_hp[i])]]
    /\ UNCHANGED <<hit_out, dmg_mult_out>>
    /\ UNCHANGED xCombat

\* combat_aoe_damage(c, pos_x, pos_y, cx, cy, radius, dmg), with the positions
\* of the units taken from the movement container
combat_aoe_damage(cx, cy, radius, dmg) ==
    /\ combat' = [combat EXCEPT !.hp = [i \in Idx(combat.count) |->
            LET r2 == FMul(radius, radius)
                dx == FSub(move.pos_x[i], cx)
                dy == FSub(move.pos_y[i], cy)
                d2 == FAdd(FMul(dx, dx), FMul(dy, dy))
                falloff == FSub(One, FDiv(sqrtf(d2), radius))
                scaled  == FMul(dmg, falloff)
                actual  == IF FLt(scaled, One) THEN One ELSE scaled
            IN  IF ~FLt(d2, r2) THEN combat.hp[i]
                ELSE clampf(FSub(combat.hp[i], actual), 0, combat.max_hp[i])]]
    /\ UNCHANGED <<hit_out, dmg_mult_out>>
    /\ UNCHANGED xCombat

\* combat_morale_boost(c, unit, amount)
combat_morale_boost(unit, amount) ==
    /\ IF unit < 0 \/ unit >= combat.count THEN UNCHANGED combat
       ELSE combat' = [combat EXCEPT !.morale[unit] =
                clampf(FAdd(combat.morale[unit], amount), 0, One)]
    /\ UNCHANGED <<hit_out, dmg_mult_out>>
    /\ UNCHANGED xCombat

\* combat_siege_damage(c, building, siege_power, dt)
combat_siege_damage(building, siege_power, dt) ==
    /\ IF building < 0 \/ building >= combat.count THEN UNCHANGED combat
       ELSE combat' = [combat EXCEPT !.hp[building] =
                clampf(FSub(combat.hp[building], FMul(siege_power, dt)),
                       0, combat.max_hp[building])]
    /\ UNCHANGED <<hit_out, dmg_mult_out>>
    /\ UNCHANGED xCombat

(***************************************************************************)
(* 6. MOVEMENT & PATHFINDING  (the scalar operations)                      *)
(***************************************************************************)
xMove == <<pop, popd, faith, combat, econ, econb, divine, psych, tech, techs,
           engine, can_cast, hit_out, dmg_mult_out, unlock_flags,
    env, engineb, miracle_out, flock, end_flags, game>>

\* the distance squared from unit to (tx, ty)
Dist2(unit, tx, ty) ==
    LET dx == FSub(tx, move.pos_x[unit])
        dy == FSub(ty, move.pos_y[unit])
    IN  FAdd(FMul(dx, dx), FMul(dy, dy))

\* move_seek_target(m, unit, tx, ty, strength)
move_seek_target(unit, tx, ty, strength) ==
    /\ IF unit < 0 \/ unit >= move.count THEN UNCHANGED move
       ELSE IF FLt(Dist2(unit, tx, ty), 1) THEN UNCHANGED move
       ELSE LET dx    == FSub(tx, move.pos_x[unit])
                dy    == FSub(ty, move.pos_y[unit])
                inv_d == fast_inv_sqrt_scalar(Dist2(unit, tx, ty))
            IN  move' = [move EXCEPT
                    !.acc_x[unit] = FAdd(move.acc_x[unit],
                                         FMul(FMul(strength, dx), inv_d)),
                    !.acc_y[unit] = FAdd(move.acc_y[unit],
                                         FMul(FMul(strength, dy), inv_d))]
    /\ UNCHANGED xMove

\* move_flee_target(m, unit, tx, ty, strength)
move_flee_target(unit, tx, ty, strength) ==
    move_seek_target(unit, tx, ty, FNeg(strength))

\* move_astar_heuristic(m, unit, gx, gy)
move_astar_heuristic(unit, gx, gy) ==
    /\ IF unit < 0 \/ unit >= move.count THEN UNCHANGED move
       ELSE move' = [move EXCEPT !.h_cost[unit] = sqrtf(Dist2(unit, gx, gy))]
    /\ UNCHANGED xMove

\* move_arrival_brake(m, unit, tx, ty, slow_radius)
move_arrival_brake(unit, tx, ty, slow_radius) ==
    /\ IF unit < 0 \/ unit >= move.count THEN UNCHANGED move
       ELSE LET dist   == sqrtf(Dist2(unit, tx, ty))
                factor == FDiv(dist, slow_radius)
            IN  IF FLt(dist, slow_radius) /\ FGt(dist, 0)
                THEN move' = [move EXCEPT
                        !.vel_x[unit] = FMul(move.vel_x[unit], factor),
                        !.vel_y[unit] = FMul(move.vel_y[unit], factor),
                        !.speed[unit] = FMul(move.speed[unit], factor)]
                ELSE UNCHANGED move
    /\ UNCHANGED xMove

\* the square of the distance between units i and j of container m
PairDist2(m, i, j) ==
    LET dx == FSub(m.pos_x[i], m.pos_x[j])
        dy == FSub(m.pos_y[i], m.pos_y[j])
    IN  FAdd(FMul(dx, dx), FMul(dy, dy))

\* the units j # i that the alignment and cohesion scans of unit i keep
Neighbours(m, i, radius) ==
    { j \in Idx(m.count) \ {i} : ~FGt(PairDist2(m, i, j), FMul(radius, radius)) }

\* the sum of arr over the units of I, scanned from unit j to unit n - 1
RECURSIVE ScanSum(_, _, _, _)
ScanSum(arr, I, j, n) ==
    IF j >= n THEN 0
    ELSE (IF j \in I THEN arr[j] ELSE 0) + ScanSum(arr, I, j + 1, n)

\* fx (axis "x") or fy (axis "y") of the separation scan of unit i
Repulsion(m, i, radius, axis) ==
    LET close == { j \in Idx(m.count) \ {i} :
                     ~(FGt(PairDist2(m, i, j), FMul(radius, radius))
                       \/ FLt(PairDist2(m, i, j), 1)) }
        push  == [j \in Idx(m.count) |->
                     IF j \in close
                     THEN FMul(FSub(IF axis = "x" THEN m.pos_x[i] ELSE m.pos_y[i],
                                    IF axis = "x" THEN m.pos_x[j] ELSE m.pos_y[j]),
                               fast_inv_sqrt_scalar(PairDist2(m, i, j)))
                     ELSE 0]
    IN  ScanSum(push, close, 0, m.count)

\* iteration i of the loop of move_flock_separation
SeparationIter(m, i, radius, strength) ==
    [m EXCEPT !.acc_x[i] = FAdd(@, FMul(strength, Repulsion(m, i, radius, "x"))),
              !.acc_y[i] = FAdd(@, FMul(strength, Repulsion(m, i, radius, "y")))]

\* iteration i of the loop of move_flock_alignment, steering the velocity of
\* the unit in place instead of its acceleration
AlignmentIterInPlace(m, i, radius, strength) ==
    LET near == Neighbours(m, i, radius)
        n    == Cardinality(near)
        avg_vx == ScanSum(m.vel_x, near, 0, m.count)
        avg_vy == ScanSum(m.vel_y, near, 0, m.count)
    IN  IF n > 0
        THEN [m EXCEPT
                !.vel_x[i] = FAdd(@, FMul(strength,
                                 FSub(FDiv(avg_vx, n * One), m.vel_x[i]))),
                !.vel_y[i] = FAdd(@, FMul(strength,
                                 FSub(FDiv(avg_vy, n * One), m.vel_y[i])))]
        ELSE m

\* iteration i of the loop of move_flock_alignment
AlignmentIter(m, i, radius, strength) ==
    LET near == Neighbours(m, i, radius)
        n    == Cardinality(near)
        avg_vx == ScanSum(m.vel_x, near, 0, m.count)
        avg_vy == ScanSum(m.vel_y, near, 0, m.count)
    IN  IF n > 0
        THEN [m EXCEPT
                !.acc_x[i] = FAdd(@, FMul(strength,
                                 FSub(FDiv(avg_vx, n * One), m.vel_x[i]))),
                !.acc_y[i] = FAdd(@, FMul(strength,
                                 FSub(FDiv(avg_vy, n * One), m.vel_y[i])))]
        ELSE m

\* iteration i of the loop of move_flock_cohesion
CohesionIter(m, i, radius, strength) ==
    LET near == Neighbours(m, i, radius)
        n    == Cardinality(near)
        cx   == ScanSum(m.pos_x, near, 0, m.count)
        cy   == ScanSum(m.pos_y, near, 0, m.count)
    IN  IF n > 0
        THEN [m EXCEPT
                !.acc_x[i] = FAdd(@, FMul(strength,
                                 FSub(FDiv(cx, n * One), m.pos_x[i]))),
                !.acc_y[i] = FAdd(@, FMul(strength,
                                 FSub(FDiv(cy, n * One), m.pos_y[i])))]
        ELSE m

\* iteration i of the loop of the flocking pass op
FlockIter(m, op, i, radius, strength) ==
    CASE op = "move_flock_separation" -> SeparationIter(m, i, radius, strength)
      [] op = "move_flock_alignment" -> AlignmentIter(m, i, radius, strength)
      [] op = "move_flock_cohesion" -> CohesionIter(m, i, radius, strength)

\* the loop of the pass op from iteration i on: for (i = 0; i < count; i++)
RECURSIVE FlockFrom(_, _, _, _, _)
FlockFrom(m, op, i, radius, strength) ==
    IF i >= m.count THEN m
    ELSE FlockFrom(FlockIter(m, op, i, radius, strength), op, i + 1,
                   radius, strength)

\* move_flock_separation(m, radius, strength)
move_flock_separation(radius, strength) ==
    /\ move' = FlockFrom(move, "move_flock_separation", 0, radius, strength)
    /\ UNCHANGED xMove

\* move_flock_alignment(m, radius, strength)
move_flock_alignment(radius, strength) ==
    /\ move' = FlockFrom(move, "move_flock_alignment", 0, radius, strength)
    /\ UNCHANGED xMove

\* move_flock_cohesion(m, radius, strength)
move_flock_cohesion(radius, strength) ==
    /\ move' = FlockFrom(move, "move_flock_cohesion", 0, radius, strength)
    /\ UNCHANGED xMove

\* what an iteration of a flocking pass leaves alone
xFlock == <<pop, popd, faith, combat, econ, econb, divine, psych, tech, techs,
            engine, engineb, env, can_cast, hit_out, dmg_mult_out,
            unlock_flags, miracle_out, end_flags, game>>

(***************************************************************************)
(* 8. PSYCHOLOGY & AI  (the scalar operations)                             *)
(***************************************************************************)
xPsych == <<pop, popd, faith, combat, econ, econb, move, divine, tech, techs,
            engine, can_cast, hit_out, dmg_mult_out, unlock_flags,
    env, engineb, miracle_out, flock, end_flags, game>>

\* what psych_morale_from_psych leaves alone
xPsychCombat == <<pop, popd, faith, econ, econb, move, divine, tech, techs,
                  engine, engineb, env, can_cast, hit_out, dmg_mult_out,
                  unlock_flags, miracle_out, flock, end_flags, game>>

\* psych_utility_evaluate(p)
psych_utility_evaluate ==
    /\ psych' = [psych EXCEPT !.aggression = [i \in Idx(psych.count) |->
            LET uw == psych.utility_work[i]
                uf == psych.utility_fight[i]
                ul == psych.utility_flee[i]
            IN  IF FGt(ul, uf) /\ FGt(ul, uw)
                THEN clampf(FSub(psych.aggression[i], One \div 10), 0, One)
                ELSE IF FGt(uf, uw)
                THEN clampf(FAdd(psych.aggression[i], One \div 20), 0, One)
                ELSE psych.aggression[i]]]
    /\ UNCHANGED xPsych

\* psych_fear_decay(p, dt)
psych_fear_decay(dt) ==
    /\ psych' = [psych EXCEPT !.fear = [i \in Idx(psych.count) |->
            LET k == FMul(psych.memory_decay[i], dt)
            IN  clampf(FMul(psych.fear[i], FSub(One, k)), 0, One)]]
    /\ UNCHANGED xPsych

\* psych_happiness_update(p, e)
psych_happiness_update ==
    /\ psych' = [psych EXCEPT !.happiness = [i \in Idx(psych.count) |->
            IF i < econ.count
            THEN LET cap   == IF FGt(econ.max_resource[i], 0)
                              THEN econ.max_resource[i] ELSE One
                     ratio == clampf(FDiv(econ.resource[i], cap), 0, One)
                     happy == FMulQ(FSub(FAdd(One, ratio), psych.fear[i]), 1, 2)
                 IN  clampf(FAdd(FMulQ(psych.happiness[i], 9, 10),
                                 FMulQ(happy, 1, 10)), 0, One)
            ELSE psych.happiness[i]]]
    /\ UNCHANGED xPsych

\* psych_social_bond_update(p, dt)
psych_social_bond_update(dt) ==
    /\ psych' = [psych EXCEPT !.social_bond = [i \in Idx(psych.count) |->
            LET delta == FMul(FMulQ(FSub(psych.loyalty[i], One \div 2), 1, 100), dt)
            IN  clampf(FAdd(psych.social_bond[i], delta), 0, One)]]
    /\ UNCHANGED xPsych

\* psych_memory_fade(p, dt)
psych_memory_fade(dt) ==
    /\ psych' = [psych EXCEPT
            !.fear = [i \in Idx(psych.count) |->
                clampf(FMul(psych.fear[i],
                            FSub(One, FMul(psych.memory_decay[i], dt))), 0, One)],
            !.aggression = [i \in Idx(psych.count) |->
                clampf(FMul(psych.aggression[i],
                            FSub(One, FMul(psych.memory_decay[i], dt))), 0, One)],
            !.threat_level = [i \in Idx(psych.count) |->
                clampf(FMul(psych.threat_level[i],
                            FSub(One, FMul(psych.memory_decay[i], dt))), 0, One)]]
    /\ UNCHANGED xPsych

\* the smaller of two counts
MinCount(a, b) == IF a < b THEN a ELSE b

\* happiness * (1 - fear) * loyalty of NPC i, clamped to [0, 1]
MoraleOf(i) ==
    clampf(FMul(FMul(psych.happiness[i], FSub(One, psych.fear[i])),
                psych.loyalty[i]), 0, One)

\* psych_morale_from_psych that blends the new morale into the stored one
psych_morale_from_psych_blended ==
    /\ combat' = [combat EXCEPT !.morale = [i \in Idx(combat.count) |->
            IF i < MinCount(psych.count, combat.count)
            THEN clampf(FMulQ(FAdd(combat.morale[i], MoraleOf(i)), 1, 2), 0, One)
            ELSE combat.morale[i]]]
    /\ UNCHANGED psych
    /\ UNCHANGED xPsychCombat

\* psych_morale_from_psych(p, c)
psych_morale_from_psych ==
    /\ combat' = [combat EXCEPT !.morale = [i \in Idx(combat.count) |->
            IF i < MinCount(psych.count, combat.count)
            THEN MoraleOf(i) ELSE combat.morale[i]]]
    /\ UNCHANGED psych
    /\ UNCHANGED xPsychCombat

\* psych_threat_assess(p, c, npc, threat_unit)
psych_threat_assess(npc, threat_unit) ==
    /\ IF npc < 0 \/ npc >= psych.count THEN UNCHANGED psych
       ELSE IF threat_unit < 0 \/ threat_unit >= combat.count
       THEN UNCHANGED psych
       ELSE LET hp_frac  == FDiv(combat.hp[threat_unit],
                                 FAdd(combat.max_hp[threat_unit], One))
                atk_norm == FDiv(combat.base_atk[threat_unit], 20 * One)
                threat   == clampf(FMul(hp_frac, atk_norm), 0, One)
            IN  psych' = [psych EXCEPT
                    !.threat_level[npc] =
                        clampf(FAdd(psych.threat_level[npc], FMulQ(threat, 3, 10)),
                               0, One),
                    !.fear[npc] =
                        clampf(FAdd(psych.fear[npc], FMulQ(threat, 1, 10)),
                               0, One)]
    /\ UNCHANGED xPsych

\* psych_loyalty_shift(p, npc, event_loyalty_delta)
psych_loyalty_shift(npc, event_loyalty_delta) ==
    /\ IF npc < 0 \/ npc >= psych.count THEN UNCHANGED psych
       ELSE LET scaled == FMul(event_loyalty_delta,
                               FAdd(One \div 2, FMulQ(psych.social_bond[npc], 1, 2)))
            IN  psych' = [psych EXCEPT !.loyalty[npc] =
                    clampf(FAdd(psych.loyalty[npc], scaled), 0, One)]
    /\ UNCHANGED xPsych

\* psych_aggression_trigger(p, npc, provocation)
psych_aggression_trigger(npc, provocation) ==
    /\ IF npc < 0 \/ npc >= psych.count THEN UNCHANGED psych
       ELSE LET rise == FMul(provocation, FSub(One, psych.happiness[npc]))
            IN  psych' = [psych EXCEPT !.aggression[npc] =
                    clampf(FAdd(psych.aggression[npc], rise), 0, One)]
    /\ UNCHANGED xPsych

(***************************************************************************)
(* 5. ENVIRONMENT & WEATHER  (the transforms of the fraction-valued fields)*)
(***************************************************************************)
xEnv == <<pop, popd, faith, combat, econ, econb, move, divine, psych, tech,
          techs, engine, engineb, can_cast, hit_out, dmg_mult_out,
          unlock_flags, miracle_out, flock, end_flags, game>>

\* env_fire_spread as its header comment words it: intensity += spread_prob *
\* fuel * dt on every cell, burning or not
env_fire_spread_from_fuel(spread_prob, dt) ==
    /\ env' = [env EXCEPT !.fire_intensity = [i \in Idx(env.count) |->
            LET spread == FMul(FMul(spread_prob, env.fuel[i]), dt)
            IN  clampf(FAdd(env.fire_intensity[i], spread), 0, One)]]
    /\ UNCHANGED xEnv

\* env_fire_spread(e, spread_prob, dt)
env_fire_spread(spread_prob, dt) ==
    /\ env' = [env EXCEPT !.fire_intensity = [i \in Idx(env.count) |->
            IF FLe(env.fire_intensity[i], 0) THEN env.fire_intensity[i]
            ELSE LET spread == FMul(FMul(FMul(spread_prob, env.fuel[i]),
                                         env.fire_intensity[i]), dt)
                 IN  clampf(FAdd(env.fire_intensity[i], spread), 0, One)]]
    /\ UNCHANGED xEnv

\* env_fire_consume(e, dt)
env_fire_consume(dt) ==
    /\ LET burns(i) == ~FLe(env.fire_intensity[i], 0)
           fuel2(i) == clampf(FSub(env.fuel[i],
                                   FMul(FMulQ(env.fire_intensity[i], 1, 10), dt)),
                              0, One)
       IN  env' = [env EXCEPT
               !.fuel = [i \in Idx(env.count) |->
                   IF burns(i) THEN fuel2(i) ELSE env.fuel[i]],
               !.fire_intensity = [i \in Idx(env.count) |->
                   IF ~burns(i) THEN env.fire_intensity[i]
                   ELSE IF FLe(fuel2(i), 0) THEN 0
                   ELSE clampf(FSub(env.fire_intensity[i], FMulQ(dt, 1, 100)),
                               0, One)]]
    /\ UNCHANGED xEnv

\* env_humidity_evaporate(e, dt)
env_humidity_evaporate(dt) ==
    /\ env' = [env EXCEPT !.humidity = [i \in Idx(env.count) |->
            LET loss == FMul(FMulQ(env.temperature[i], 1, 1000), dt)
            IN  clampf(FSub(env.humidity[i], loss), 0, One)]]
    /\ UNCHANGED xEnv

(***************************************************************************)
(* 10. ENGINE & END GAME  (the scalar operations)                          *)
(***************************************************************************)
xEngine == <<pop, popd, faith, combat, econ, econb, move, divine, psych, tech,
             techs, can_cast, hit_out, dmg_mult_out, unlock_flags,
    env, miracle_out, flock, end_flags, game>>

\* engine_entropy_increase(e, dt)
engine_entropy_increase(dt) ==
    /\ engine' = [engine EXCEPT !.entropy = [i \in Idx(engine.count) |->
            clampf(FAdd(engine.entropy[i],
                        FMul(FMul(engine.entropy_rate[i], engine.chaos_mult[i]), dt)),
                   0, One)]]
    /\ UNCHANGED engineb
    /\ UNCHANGED xEngine

\* engine_stability_update(e, p, t), with the parameters of its declaration
\* in simulation.h: the definition reads p and t
engine_stability_update ==
    /\ engine' = [engine EXCEPT !.stability = [i \in Idx(engine.count) |->
            LET tech_norm == IF i < tech.count
                             THEN clampf(FDiv(tech.tech_level[i], 50 * One), 0, One)
                             ELSE One \div 2
                pop_pressure == IF i < pop.count
                                THEN clampf(FDiv(pop.population[i],
                                                 FAdd(pop.carrying_cap[i], One)),
                                            0, One)
                                ELSE 0
            IN  clampf(FMul(FMul(FSub(One, engine.entropy[i]),
                                 FAdd(One \div 2, FMulQ(tech_norm, 1, 2))),
                            FSub(One, FMulQ(pop_pressure, 1, 2))),
                       0, One)]]
    /\ UNCHANGED engineb
    /\ UNCHANGED xEngine

\* floorf(a)
floorf(a) == IF Finite(a) THEN (a \div One) * One ELSE a

\* engine_spatial_grid_assign(e, m, cell_size)
engine_spatial_grid_assign(cell_size) ==
    /\ LET n   == MinCount(engine.count, move.count)
           inv == IF FGt(cell_size, 0) THEN FDiv(One, cell_size) ELSE One
       IN  engine' = [engine EXCEPT
               !.grid_x = [i \in Idx(engine.count) |->
                   IF i < n THEN floorf(FMul(move.pos_x[i], inv))
                   ELSE engine.grid_x[i]],
               !.grid_y = [i \in Idx(engine.count) |->
                   IF i < n THEN floorf(FMul(move.pos_y[i], inv))
                   ELSE engine.grid_y[i]]]
    /\ UNCHANGED engineb
    /\ UNCHANGED xEngine

\* engine_end_timer_tick without the test of the stability
engine_end_timer_tick_always(dt) ==
    /\ engine' = [engine EXCEPT !.end_timer = [i \in Idx(engine.count) |->
            clampf(FSub(engine.end_timer[i], dt), 0, 1000000 * One)]]
    /\ UNCHANGED engineb
    /\ UNCHANGED xEngine

\* engine_end_timer_tick(e, dt)
engine_end_timer_tick(dt) ==
    /\ engine' = [engine EXCEPT !.end_timer = [i \in Idx(engine.count) |->
            IF FLt(engine.stability[i], One \div 10)
            THEN clampf(FSub(engine.end_timer[i], dt), 0, 1000000 * One)
            ELSE engine.end_timer[i]]]
    /\ UNCHANGED engineb
    /\ UNCHANGED xEngine

\* engine_end_condition_check(e, end_flags)
engine_end_condition_check ==
    /\ end_flags' = [i \in Idx(engine.count) |->
            IF FLe(engine.end_timer[i], 0) THEN 1 ELSE 0]
    /\ UNCHANGED <<pop, popd, faith, combat, econ, econb, move, divine, psych,
                   tech, techs, engine, engineb, env, can_cast, hit_out,
                   dmg_mult_out, unlock_flags, miracle_out, flock, game>>

\* engine_victory_pts_update(e, p, t)
engine_victory_pts_update ==
    /\ engine' = [engine EXCEPT !.victory_pts = [i \in Idx(engine.count) |->
            LET pop_contrib  == IF i < pop.count
                                THEN FMulQ(pop.population[i], 1, 1000) ELSE 0
                tech_contrib == IF i < tech.count THEN tech.tech_level[i] ELSE 0
            IN  FAdd(engine.victory_pts[i], FAdd(pop_contrib, tech_contrib))]]
    /\ UNCHANGED engineb
    /\ UNCHANGED xEngine

\* the container e after a chaos event whose roll comes from one generator
\* shared by the factions, the state of faction 0
ChaosEventShared(e, faction) ==
    IF faction < 0 \/ faction >= e.count THEN e
    ELSE LET s    == lcg_next(e.rng_state[0])
             roll == lcg_float(s)
             cm   == e.chaos_mult[faction]
         IN  [e EXCEPT
                 !.rng_state[0] = s,
                 !.chaos_mult[faction] =
                     IF RollBelow(s, e.entropy[faction])
                     THEN clampf(FMul(cm, FAdd(One, roll)), One, 10 * One)
                     ELSE clampf(FMulQ(cm, 99, 100), One, 10 * One)]

\* the container e after engine_chaos_event(e, faction)
ChaosEvent(e, faction) ==
    IF faction < 0 \/ faction >= e.count THEN e
    ELSE LET s    == lcg_next(e.rng_state[faction])
             roll == lcg_float(s)
             cm   == e.chaos_mult[faction]
         IN  [e EXCEPT
                 !.rng_state[faction] = s,
                 !.chaos_mult[faction] =
                     IF RollBelow(s, e.entropy[faction])
                     THEN clampf(FMul(cm, FAdd(One, roll)), One, 10 * One)
                     ELSE clampf(FMulQ(cm, 99, 100), One, 10 * One)]

\* the container e after engine_determinism_seed(e, faction, seed)
DeterminismSeed(e, faction, seed) ==
    IF faction < 0 \/ faction >= e.count THEN e
    ELSE [e EXCEPT !.rng_state[faction] =
             IF seed # U32(0) THEN seed ELSE U32(1)]

\* engine_chaos_event(e, faction)
engine_chaos_event(faction) ==
    /\ engine' = ChaosEvent(engine, faction)
    /\ UNCHANGED engineb
    /\ UNCHANGED xEngine

\* engine_entropy_reset(e, faction)
engine_entropy_reset(faction) ==
    /\ IF faction < 0 \/ faction >= engine.count THEN UNCHANGED engine
       ELSE engine' = [engine EXCEPT !.entropy[faction] = 0,
                                     !.chaos_mult[faction] = One]
    /\ UNCHANGED engineb
    /\ UNCHANGED xEngine

\* engine_determinism_seed(e, faction, seed)
engine_determinism_seed(faction, seed) ==
    /\ engine' = DeterminismSeed(engine, faction, seed)
    /\ UNCHANGED engineb
    /\ UNCHANGED xEngine

(***************************************************************************)
(* Containers of the other engines while one engine is exercised: empty    *)
(* (count = 0), so no transform has an index to work on.                   *)
(***************************************************************************)
NoArr == [i \in {} |-> 0]

EmptyPop == [count |-> 0, population |-> NoArr, carrying_cap |-> NoArr,
             growth_rate |-> NoArr, susceptible |-> NoArr, infected |-> NoArr,
             recovered |-> NoArr, beta |-> NoArr, gamma_rec |-> NoArr,
             food_supply |-> NoArr, food_threshold |-> NoArr,
             age_young |-> NoArr, age_adult |-> NoArr, age_elder |-> NoArr]
EmptyFaith == [count |-> 0, faith_level |-> NoArr, mana |-> NoArr,
               mana_regen |-> NoArr, heresy_rate |-> NoArr,
               miracle_chance |-> NoArr, devotee_count |-> NoArr,
               temple_count |-> NoArr, schism_risk |-> NoArr,
               conversion_rate |-> NoArr, divine_favor |-> NoArr]
EmptyCombat == [count |-> 0, base_atk |-> NoArr, armor |-> NoArr, hp |-> NoArr,
                max_hp |-> NoArr, morale |-> NoArr, morale_decay |-> NoArr,
                hit_chance |-> NoArr,
                crit_chance |-> NoArr, crit_mult |-> NoArr]
EmptyEcon == [count |-> 0, resource |-> NoArr, max_resource |-> NoArr,
              gather_rate |-> NoArr, depletion_rate |-> NoArr,
              price |-> NoArr, demand |-> NoArr, supply |-> NoArr,
              trade_volume |-> NoArr]
EmptyMove == [count |-> 0, pos_x |-> NoArr, pos_y |-> NoArr, vel_x |-> NoArr,
              vel_y |-> NoArr, acc_x |-> NoArr, acc_y |-> NoArr,
              speed |-> NoArr, h_cost |-> NoArr]
EmptyDivine == [count |-> 0, energy |-> NoArr, energy_cap |-> NoArr,
                regen_rate |-> NoArr, meteor_cost |-> NoArr,
                heal_amount |-> NoArr, heal_decay |-> NoArr,
                terraform_cost |-> NoArr, smite_power |-> NoArr,
                blessing_mult |-> NoArr]
EmptyPsych == [count |-> 0, happiness |-> NoArr, fear |-> NoArr,
               loyalty |-> NoArr, aggression |-> NoArr,
               utility_work |-> NoArr, utility_fight |-> NoArr,
               utility_flee |-> NoArr, threat_level |-> NoArr,
               memory_decay |-> NoArr, social_bond |-> NoArr]
EmptyTech == [count |-> 0, research_pts |-> NoArr, research_rate |-> NoArr,
              tech_cost |-> NoArr, tech_level |-> NoArr,
              golden_age_mult |-> NoArr, golden_age_timer |-> NoArr,
              culture |-> NoArr, era |-> NoArr, pop_bonus |-> NoArr]
EmptyEnv == [count |-> 0, temperature |-> NoArr, humidity |-> NoArr,
             fire_intensity |-> NoArr, fuel |-> NoArr]
EmptyEngine == [count |-> 0, entropy |-> NoArr, entropy_rate |-> NoArr,
                grid_x |-> NoArr, grid_y |-> NoArr, stability |-> NoArr,
                victory_pts |-> NoArr, chaos_mult |-> NoArr,
                rng_state |-> NoArr, end_timer |-> NoArr]

\* the containers
containers == <<pop, popd, faith, combat, econ, econb, move, divine, psych,
                tech, techs, engine, engineb, env>>

NoCall == [op |-> "none", ok |-> TRUE]
Call(name, inRange) == [op |-> name, ok |-> inRange]

InitOutputs ==
    /\ can_cast = 0
    /\ hit_out = 0
    /\ dmg_mult_out = One
    /\ unlock_flags = NoArr
    /\ miracle_out = NoArr
    /\ flock = NoPass
    /\ end_flags = NoArr
    /\ game = NoGame
    /\ last = NoCall

(***************************************************************************)
(* SpecDivine: the god actions on one Divine container, its linked Faith   *)
(* container and the Combat container the actions target.                  *)
(***************************************************************************)
\* what the owning layer configures for every god: [mc]ost of a meteor,
\* [tc]ost of a terraformed tile, [sp] smite power, [bm] blessing multiplier
DivineProfiles ==
    { [mc |-> 10 * One, tc |-> 5 * One, sp |-> 100 * One, bm |-> 2 * One],
      [mc |-> 0,        tc |-> 5 * One, sp |-> 150 * One, bm |-> 0] }

EnergyLevels == {0, 5 * One, 20 * One}

MkDivine(n, e, p) ==
    [count |-> n,
     energy |-> e,
     energy_cap     |-> [i \in Idx(n) |-> 20 * One],
     regen_rate     |-> [i \in Idx(n) |-> 10 * One],
     meteor_cost    |-> [i \in Idx(n) |-> p.mc],
     heal_amount    |-> [i \in Idx(n) |-> 40 * One],
     heal_decay     |-> [i \in Idx(n) |-> One],
     terraform_cost |-> [i \in Idx(n) |-> p.tc],
     smite_power    |-> [i \in Idx(n) |-> p.sp],
     blessing_mult  |-> [i \in Idx(n) |-> p.bm]]

MkCombat(n) ==
    [count |-> n,
     base_atk    |-> [i \in Idx(n) |-> 8 * One],
     armor       |-> [i \in Idx(n) |-> 200 * One],
     hp          |-> [i \in Idx(n) |-> 100 * One],
     max_hp      |-> [i \in Idx(n) |-> 100 * One],
     morale      |-> [i \in Idx(n) |-> One \div 2],
     morale_decay |-> [i \in Idx(n) |-> One \div 10],
     hit_chance  |-> [i \in Idx(n) |-> One \div 2],
     crit_chance |-> [i \in Idx(n) |-> One \div 2],
     crit_mult   |-> [i \in Idx(n) |-> 2 * One]]

MkFaith(n) ==
    [count |-> n,
     faith_level     |-> [i \in Idx(n) |-> One \div 2],
     mana            |-> [i \in Idx(n) |-> 10 * One],
     mana_regen      |-> [i \in Idx(n) |-> One],
     heresy_rate     |-> [i \in Idx(n) |-> One],
     miracle_chance  |-> [i \in Idx(n) |-> One \div 2],
     devotee_count   |-> [i \in Idx(n) |-> 100 * One],
     temple_count    |-> [i \in Idx(n) |-> 2 * One],
     schism_risk     |-> [i \in Idx(n) |-> 0],
     conversion_rate |-> [i \in Idx(n) |-> One \div 10],
     divine_favor    |-> [i \in Idx(n) |-> One \div 2]]

\* tiles arguments of divine_terraform_cost
TileArgs == {0 - 1, 0, 1, 3}

InitDivine ==
    /\ divine \in { MkDivine(NGods, e, p) : e \in [Idx(NGods) -> EnergyLevels],
                                     p \in DivineProfiles }
    /\ faith = MkFaith(NFactions)
    /\ combat = MkCombat(NUnits)
    /\ pop = EmptyPop /\ popd = EmptyPop
    /\ econ = EmptyEcon /\ econb = EmptyEcon
    /\ move = EmptyMove
    /\ env = EmptyEnv
    /\ psych = EmptyPsych
    /\ tech = EmptyTech /\ techs = EmptyTech
    /\ engine = EmptyEngine
    /\ engineb = EmptyEngine
    /\ InitOutputs

InRange(i, n) == i >= 0 /\ i < n

\* a blessing the model still follows: the blessed max_hp stays within MaxStat
BlessingInBound(g, t) ==
    (InRange(g, divine.count) /\ InRange(t, combat.count))
        => Mul(combat.max_hp[t], divine.blessing_mult[g]) <= MaxStat * One

NextDivine ==
    \/ divine_energy_regen(One) /\ last' = Call("divine_energy_regen", TRUE)
    \/ \E g \in Args(divine.count) :
          divine_meteor_cost(g)
          /\ last' = Call("divine_meteor_cost", InRange(g, divine.count))
    \/ \E g \in Args(divine.count), n \in TileArgs :
          divine_terraform_cost(g, n)
          /\ last' = Call("divine_terraform_cost", InRange(g, divine.count))
    \/ \E g \in Args(divine.count), t \in Args(combat.count) :
          divine_smite(g, t)
          /\ last' = Call("divine_smite",
                          InRange(g, divine.count) /\ InRange(t, combat.count))
    \/ \E g \in Args(divine.count), t \in Args(combat.count) :
          BlessingInBound(g, t) /\ divine_blessing(g, t)
          /\ last' = Call("divine_blessing",
                          InRange(g, divine.count) /\ InRange(t, combat.count))
    \/ divine_energy_cap /\ last' = Call("divine_energy_cap", TRUE)

SpecDivine == InitDivine /\ [][NextDivine]_vars

(***************************************************************************)
(* SpecTrade: trades between a seller's and a buyer's Economy container,   *)
(* with gathering and depletion on the seller's side.                      *)
(***************************************************************************)
MkEcon(n, res) ==
    [count |-> n,
     resource       |-> res,
     max_resource   |-> [i \in Idx(n) |-> 20 * One],
     gather_rate    |-> [i \in Idx(n) |-> 5 * One],
     depletion_rate |-> [i \in Idx(n) |-> 5 * One],
     price          |-> [i \in Idx(n) |-> One],
     demand         |-> [i \in Idx(n) |-> 10 * One],
     supply         |-> [i \in Idx(n) |-> 0],
     trade_volume   |-> [i \in Idx(n) |-> 0]]

\* amount arguments of econ_trade
TradeAmounts == {0 - 10 * One, 0, 5 * One, 30 * One}

InitTrade ==
    /\ econ \in { MkEcon(NSellers, r) : r \in [Idx(NSellers) -> {0, 5 * One, 20 * One}] }
    /\ econb \in { MkEcon(NBuyers, r) : r \in [Idx(NBuyers) -> {0, 15 * One}] }
    /\ divine = EmptyDivine
    /\ faith = EmptyFaith
    /\ combat = EmptyCombat
    /\ pop = EmptyPop /\ popd = EmptyPop
    /\ move = EmptyMove
    /\ env = EmptyEnv
    /\ psych = EmptyPsych
    /\ tech = EmptyTech /\ techs = EmptyTech
    /\ engine = EmptyEngine
    /\ engineb = EmptyEngine
    /\ InitOutputs

\* a trade the model still follows: both trade_volume counters stay in bound
TradeInBound(si, bi, amount) ==
    (InRange(si, econ.count) /\ InRange(bi, econb.count)) =>
        LET actual == IF amount < econ.resource[si] THEN amount
                                                    ELSE econ.resource[si]
        IN  \A v \in {econ.trade_volume[si] + actual,
                       econb.trade_volume[bi] + actual} :
                v <= MaxVolume * One /\ v >= 0 - MaxVolume * One

NextTrade ==
    \/ econ_gather(One) /\ last' = Call("econ_gather", TRUE)
    \/ econ_deplete(One) /\ last' = Call("econ_deplete", TRUE)
    \/ \E si \in Args(econ.count), bi \in Args(econb.count), a \in TradeAmounts :
          TradeInBound(si, bi, a) /\ econ_trade(si, bi, a)
          /\ last' = Call("econ_trade",
                          InRange(si, econ.count) /\ InRange(bi, econb.count))

SpecTrade == InitTrade /\ [][NextTrade]_vars

(***************************************************************************)
(* SpecPrice: the market price of an Economy container under changing      *)
(* demand and stock.                                                       *)
(***************************************************************************)
MkMarket(n, res) ==
    [count |-> n,
     resource       |-> res,
     max_resource   |-> [i \in Idx(n) |-> 20 * One],
     gather_rate    |-> [i \in Idx(n) |-> 20 * One],
     depletion_rate |-> [i \in Idx(n) |-> 20 * One],
     price          |-> [i \in Idx(n) |-> One],
     demand         |-> [i \in Idx(n) |-> 10 * One],
     supply         |-> [i \in Idx(n) |-> 0],
     trade_volume   |-> [i \in Idx(n) |-> 0]]

\* population_delta arguments of econ_demand_update
PopulationDeltas == {0 - 1000 * One, 1000 * One}

InitPrice ==
    /\ econ \in { MkMarket(NSellers, r) : r \in [Idx(NSellers) -> {0, 20 * One}] }
    /\ econb = EmptyEcon
    /\ divine = EmptyDivine
    /\ faith = EmptyFaith
    /\ combat = EmptyCombat
    /\ pop = EmptyPop /\ popd = EmptyPop
    /\ move = EmptyMove
    /\ env = EmptyEnv
    /\ psych = EmptyPsych
    /\ tech = EmptyTech /\ techs = EmptyTech
    /\ engine = EmptyEngine
    /\ engineb = EmptyEngine
    /\ InitOutputs

DemandInBound(d) ==
    \A i \in Idx(econ.count) : econ.demand[i] + MulQ(d, 1, 100) <= MaxDemand * One

NextPrice ==
    \/ econ_gather(One) /\ last' = Call("econ_gather", TRUE)
    \/ econ_deplete(One) /\ last' = Call("econ_deplete", TRUE)
    \/ econ_market_price /\ last' = Call("econ_market_price", TRUE)
    \/ \E d \in PopulationDeltas :
          DemandInBound(d) /\ econ_demand_update(d)
          /\ last' = Call("econ_demand_update", TRUE)

SpecPrice == InitPrice /\ [][NextPrice]_vars

(***************************************************************************)
(* SpecPop: the transforms that change a population count, on a source     *)
(* container and the container migrants move to.                           *)
(***************************************************************************)
\* a population group: [k] carrying capacity, [n] population, [r] growth rate
MkPop(cnt, g) ==
    [count |-> cnt,
     population     |-> [i \in Idx(cnt) |-> g.n],
     carrying_cap   |-> [i \in Idx(cnt) |-> g.k],
     growth_rate    |-> [i \in Idx(cnt) |-> g.r],
     susceptible    |-> [i \in Idx(cnt) |-> g.s],
     infected       |-> [i \in Idx(cnt) |-> g.inf],
     recovered      |-> [i \in Idx(cnt) |-> g.rec],
     beta           |-> [i \in Idx(cnt) |-> g.beta],
     gamma_rec      |-> [i \in Idx(cnt) |-> g.gam],
     food_supply    |-> [i \in Idx(cnt) |-> 0],
     food_threshold |-> [i \in Idx(cnt) |-> FMulQ(g.k, 1, 10)],
     age_young      |-> [i \in Idx(cnt) |-> 30],
     age_adult      |-> [i \in Idx(cnt) |-> 50],
     age_elder      |-> [i \in Idx(cnt) |-> 20]]

\* carrying capacities and the populations each admits (0 <= n <= k)
PopSizes == { <<0, 0>>, <<One, 0>>, <<One, One \div 2>>, <<One, One>> }

GrowthRates == {0 - (One \div 2), One \div 10, 3 * One}

PopGroups ==
    { [k |-> kn[1], n |-> kn[2], r |-> r, s |-> 50, inf |-> 20, rec |-> 30,
       beta |-> 30, gam |-> 10] : kn \in PopSizes, r \in GrowthRates }

\* dt arguments of the batch transforms
Dts == {0, 30 * One}

\* rate arguments of pop_migration
MigrationRates == {One \div 50, 2 * One}

InitPop ==
    /\ pop \in { MkPop(NGroups, g) : g \in PopGroups }
    /\ popd = MkPop(NGroups, [k |-> 3 * One, n |-> 0, r |-> 0, s |-> One,
                               inf |-> 0, rec |-> 0, beta |-> 0, gam |-> 0])
    /\ divine = EmptyDivine
    /\ faith = EmptyFaith
    /\ combat = EmptyCombat
    /\ econ = EmptyEcon /\ econb = EmptyEcon
    /\ move = EmptyMove
    /\ env = EmptyEnv
    /\ psych = EmptyPsych
    /\ tech = EmptyTech /\ techs = EmptyTech
    /\ engine = EmptyEngine
    /\ engineb = EmptyEngine
    /\ InitOutputs

NextPop ==
    \/ \E dt \in Dts : pop_logistic_growth(dt)
          /\ last' = Call("pop_logistic_growth", TRUE)
    \/ \E dt \in Dts : pop_starvation(dt) /\ last' = Call("pop_starvation", TRUE)
    \/ \E dt \in Dts : pop_birth_rate(dt) /\ last' = Call("pop_birth_rate", TRUE)
    \/ \E dt \in Dts : pop_death_rate(dt) /\ last' = Call("pop_death_rate", TRUE)
    \/ \E idx \in Args(pop.count), rate \in MigrationRates, dt \in Dts :
          pop_migration(idx, rate, dt)
          /\ last' = Call("pop_migration",
                          InRange(idx, pop.count) /\ InRange(idx, popd.count))
    \/ pop_carrying_cap_pressure /\ last' = Call("pop_carrying_cap_pressure", TRUE)
    \/ \E dt \in Dts : pop_epidemic_mortality(One \div 2, dt)
          /\ last' = Call("pop_epidemic_mortality", TRUE)
    \/ \E dt \in Dts : pop_recovery_bonus(dt)
          /\ last' = Call("pop_recovery_bonus", TRUE)

SpecPop == InitPop /\ [][NextPop]_vars

(***************************************************************************)
(* SpecSir: the disease model stepped on groups whose compartments start   *)
(* normalised.                                                             *)
(***************************************************************************)
\* starting compartments <<susceptible, infected, recovered>>, each summing to 1
Compartments == { <<50, 50, 0>>, <<90, 10, 0>>, <<One, 0, 0>>, <<34, 33, 33>> }

\* beta and gamma_rec
Betas == {3 * (One \div 10), 4 * One}
Gammas == {One \div 10, One \div 2}

\* populations of the group the disease runs in
SirPopulations == {0, One, 100 * One}

SirDts == {0, One, 5 * One}

InitSir ==
    /\ pop \in { MkPop(NGroups, [k |-> 100 * One, n |-> n, r |-> 0,
                                 s |-> c[1], inf |-> c[2], rec |-> c[3],
                                 beta |-> b, gam |-> g]) :
                  c \in Compartments, b \in Betas, g \in Gammas,
                  n \in SirPopulations }
    /\ popd = EmptyPop
    /\ divine = EmptyDivine
    /\ faith = EmptyFaith
    /\ combat = EmptyCombat
    /\ econ = EmptyEcon /\ econb = EmptyEcon
    /\ move = EmptyMove
    /\ env = EmptyEnv
    /\ psych = EmptyPsych
    /\ tech = EmptyTech /\ techs = EmptyTech
    /\ engine = EmptyEngine
    /\ engineb = EmptyEngine
    /\ InitOutputs

NextSir ==
    \E dt \in SirDts : pop_sir_step(dt) /\ last' = Call("pop_sir_step", TRUE)

SpecSir == InitSir /\ [][NextSir]_vars

(***************************************************************************)
(* SpecTech: the technology transforms in any order, on civilisations at   *)
(* low levels, around the clamp point of the cost exponent and far beyond. *)
(***************************************************************************)
\* civilisations whose fields are given per index by lv, pts and rate
MkTech(cnt, lv, pts, rate) ==
    [count |-> cnt,
     research_pts     |-> [i \in Idx(cnt) |-> pts[i]],
     research_rate    |-> [i \in Idx(cnt) |-> rate[i]],
     tech_cost        |-> [i \in Idx(cnt) |-> HundredExp(0)],
     tech_level       |-> [i \in Idx(cnt) |-> lv[i]],
     golden_age_mult  |-> [i \in Idx(cnt) |-> One],
     golden_age_timer |-> [i \in Idx(cnt) |-> 0],
     culture          |-> [i \in Idx(cnt) |-> 50 * One],
     era              |-> [i \in Idx(cnt) |-> 0],
     pop_bonus        |-> [i \in Idx(cnt) |-> 2 * One]]

\* 66 * 0.3 is the last exponent under the clamp, 67 * 0.3 the first over it
TechLevels == {0, 30 * One, 66 * One, 67 * One, 1000 * One}

InitTech ==
    /\ tech \in { MkTech(NCivs, lv, [i \in Idx(NCivs) |-> 0],
                         [i \in Idx(NCivs) |-> IF i = 0 THEN 1 ELSE 0]) :
                   lv \in [Idx(NCivs) -> TechLevels] }
    /\ techs = EmptyTech
    /\ pop = MkPop(NGroups, [k |-> One, n |-> One, r |-> 0, s |-> One,
                              inf |-> 0, rec |-> 0, beta |-> 0, gam |-> 0])
    /\ popd = EmptyPop
    /\ divine = EmptyDivine
    /\ faith = EmptyFaith
    /\ combat = EmptyCombat
    /\ econ = EmptyEcon /\ econb = EmptyEcon
    /\ move = EmptyMove
    /\ env = EmptyEnv
    /\ psych = EmptyPsych
    /\ engine = EmptyEngine
    /\ engineb = EmptyEngine
    /\ can_cast = 0 /\ hit_out = 0 /\ dmg_mult_out = One
    /\ miracle_out = NoArr
    /\ flock = NoPass
    /\ end_flags = NoArr
    /\ game = NoGame
    /\ unlock_flags = [i \in Idx(NCivs) |-> 0]
    /\ last = NoCall

ResearchInBound == \A i \in Idx(tech.count) : tech.research_pts[i] < MaxPts
LevelInBound ==
    \A i \in Idx(tech.count) : Unlocks(i) => tech.tech_level[i] < MaxLevel * One

NextTech ==
    \/ ResearchInBound /\ tech_research_tick(One)
          /\ last' = Call("tech_research_tick", TRUE)
    \/ tech_cost_scale /\ last' = Call("tech_cost_scale", TRUE)
    \/ LevelInBound /\ tech_unlock_check
          /\ last' = Call("tech_unlock_check", TRUE)

SpecTech == InitTech /\ [][NextTech]_vars

(***************************************************************************)
(* SpecTechLive: the tick sequence tech_research_tick; tech_cost_scale;    *)
(* tech_unlock_check repeated forever, for civilisations whose gain per    *)
(* tick is positive.                                                       *)
(***************************************************************************)
\* [lv] tech_level, [pts] research_pts, [rate] research_rate in blocks per tick
LiveProfiles ==
    { [lv |-> 0, pts |-> 0, rate |-> 2 ^ 22],
      [lv |-> 54 * One, pts |-> 0, rate |-> 2 ^ 22],
      [lv |-> 54 * One, pts |-> Significand - 2, rate |-> 1] }

InitTechLive ==
    /\ tech \in { MkTech(NCivs, [i \in Idx(NCivs) |-> f[i].lv],
                         [i \in Idx(NCivs) |-> f[i].pts],
                         [i \in Idx(NCivs) |-> f[i].rate]) :
                   f \in [Idx(NCivs) -> LiveProfiles] }
    /\ techs = EmptyTech
    /\ pop = EmptyPop /\ popd = EmptyPop
    /\ divine = EmptyDivine
    /\ faith = EmptyFaith
    /\ combat = EmptyCombat
    /\ econ = EmptyEcon /\ econb = EmptyEcon
    /\ move = EmptyMove
    /\ env = EmptyEnv
    /\ psych = EmptyPsych
    /\ engine = EmptyEngine
    /\ engineb = EmptyEngine
    /\ can_cast = 0 /\ hit_out = 0 /\ dmg_mult_out = One
    /\ miracle_out = NoArr
    /\ flock = NoPass
    /\ end_flags = NoArr
    /\ game = NoGame
    /\ unlock_flags = [i \in Idx(NCivs) |-> 0]
    /\ last = NoCall

\* some civilisation has reached the level the model stops at
AtLiveBound ==
    \E i \in Idx(tech.count) : tech.tech_level[i] >= LiveMaxLevel * One

NextTechLive ==
    \/ /\ ~AtLiveBound
       /\ last.op \in {"none", "tech_unlock_check"}
       /\ tech_research_tick(One)
       /\ last' = Call("tech_research_tick", TRUE)
    \/ /\ ~AtLiveBound
       /\ last.op = "tech_research_tick"
       /\ tech_cost_scale
       /\ last' = Call("tech_cost_scale", TRUE)
    \/ /\ ~AtLiveBound
       /\ last.op = "tech_cost_scale"
       /\ tech_unlock_check
       /\ last' = Call("tech_unlock_check", TRUE)

\* the sequence is repeated forever: a step that can be taken is taken
SpecTechLive == InitTechLive /\ [][NextTechLive]_vars /\ WF_vars(NextTechLive)

(***************************************************************************)
(* SpecEra: the technology transforms on civilisations at and around the   *)
(* era boundaries, with a neighbour whose technology diffuses to them.     *)
(***************************************************************************)
\* 10 and 20 are era boundaries; 9 is one unlock under the first
EraLevels == {9 * One, 10 * One, 20 * One}

\* 100 ticks of decay take 0.01 off a level
DecayDts == {100 * One}

\* diffusion that adds points and diffusion that takes them away again
DiffusionRates == {One, 0 - One}

InitEra ==
    /\ tech \in { MkTech(NCivs, lv, [i \in Idx(NCivs) |-> 0],
                         [i \in Idx(NCivs) |-> IF i = 0 THEN 1 ELSE 0]) :
                   lv \in [Idx(NCivs) -> EraLevels] }
    /\ techs = MkTech(1, [i \in Idx(1) |-> One], [i \in Idx(1) |-> 0],
                      [i \in Idx(1) |-> 0])
    /\ pop = EmptyPop /\ popd = EmptyPop
    /\ divine = EmptyDivine
    /\ faith = EmptyFaith
    /\ combat = EmptyCombat
    /\ econ = EmptyEcon /\ econb = EmptyEcon
    /\ move = EmptyMove
    /\ env = EmptyEnv
    /\ psych = EmptyPsych
    /\ engine = EmptyEngine
    /\ engineb = EmptyEngine
    /\ can_cast = 0 /\ hit_out = 0 /\ dmg_mult_out = One
    /\ miracle_out = NoArr
    /\ flock = NoPass
    /\ end_flags = NoArr
    /\ game = NoGame
    /\ unlock_flags = [i \in Idx(NCivs) |-> 0]
    /\ last = NoCall

\* decay is followed MaxDecay hundredths below a whole level
DecayInBound ==
    \A i \in Idx(tech.count) :
        \/ tech.tech_level[i] % One = 0
        \/ tech.tech_level[i] % One > One - MaxDecay

\* diffusion is followed while the points stay within MaxDiffused of zero
DiffusionInBound ==
    \A i \in Idx(tech.count) :
        /\ tech.research_pts[i] < MaxDiffused
        /\ tech.research_pts[i] > 0 - MaxDiffused

\* unlocks are followed up to level MaxEraLevel
EraLevelInBound ==
    \A i \in Idx(tech.count) :
        Unlocks(i) => tech.tech_level[i] < MaxEraLevel * One

NextEra ==
    \/ ResearchInBound /\ tech_research_tick(One)
          /\ last' = Call("tech_research_tick", TRUE)
    \/ EraLevelInBound /\ tech_unlock_check
          /\ last' = Call("tech_unlock_check", TRUE)
    \/ \E dt \in DecayDts :
          DecayInBound /\ tech_decay(dt) /\ last' = Call("tech_decay", TRUE)
    \/ \E di \in Idx(NCivs), rate \in DiffusionRates :
          /\ DiffusionInBound
          /\ tech_diffusion(0, di, rate, One)
          /\ last' = Call("tech_diffusion", TRUE)
    \/ tech_era_advance /\ last' = Call("tech_era_advance", TRUE)

SpecEra == InitEra /\ [][NextEra]_vars

(***************************************************************************)
(* SpecMiracle: miracle checks between the faith transforms that change    *)
(* the stored state of the factions.                                       *)
(***************************************************************************)
\* 0.5 * 0.5 is under the roll of faction 0, 0.55 * 0.5 between the rolls of
\* factions 0 and 1, 0.5 * 1.0 over both
MiracleChances == {One \div 2, 55}
Favors == {0, One \div 2, One}

\* piety_delta arguments of faith_divine_favor_update
PietyDeltas == {One \div 2, 0 - (One \div 2)}

InitMiracle ==
    /\ faith \in { [MkFaith(NSects) EXCEPT !.miracle_chance = ch,
                                           !.divine_favor = fv] :
                    ch \in [Idx(NSects) -> MiracleChances],
                    fv \in [Idx(NSects) -> Favors] }
    /\ pop = EmptyPop /\ popd = EmptyPop
    /\ divine = EmptyDivine
    /\ combat = EmptyCombat
    /\ econ = EmptyEcon /\ econb = EmptyEcon
    /\ move = EmptyMove
    /\ env = EmptyEnv
    /\ psych = EmptyPsych
    /\ tech = EmptyTech /\ techs = EmptyTech
    /\ engine = EmptyEngine
    /\ engineb = EmptyEngine
    /\ InitOutputs

\* mana regeneration is followed for MaxMana units of mana
ManaInBound ==
    \A i \in Idx(faith.count) : faith.mana[i] < (10 + MaxMana) * One

NextMiracle ==
    \/ faith_miracle_check /\ last' = Call("faith_miracle_check", TRUE)
    \/ ManaInBound /\ faith_mana_regen(2 * One)
          /\ last' = Call("faith_mana_regen", TRUE)
    \/ \E d \in PietyDeltas :
          faith_divine_favor_update(d)
              /\ last' = Call("faith_divine_favor_update", TRUE)
    \/ faith_temple_bonus /\ last' = Call("faith_temple_bonus", TRUE)

SpecMiracle == InitMiracle /\ [][NextMiracle]_vars

(***************************************************************************)
(* SpecScalar: every scalar (index-taking) operation, with indices in and  *)
(* out of range, in worlds where one engine's containers are populated     *)
(* and the others are empty.                                               *)
(***************************************************************************)
MkMove(n) ==
    [count |-> n,
     pos_x |-> [i \in Idx(n) |-> 0], pos_y |-> [i \in Idx(n) |-> 0],
     vel_x |-> [i \in Idx(n) |-> One], vel_y |-> [i \in Idx(n) |-> 0],
     acc_x |-> [i \in Idx(n) |-> 0], acc_y |-> [i \in Idx(n) |-> 0],
     speed |-> [i \in Idx(n) |-> One], h_cost |-> [i \in Idx(n) |-> 0]]

MkPsych(n) ==
    [count |-> n,
     happiness    |-> [i \in Idx(n) |-> One \div 2],
     fear         |-> [i \in Idx(n) |-> 8 * (One \div 10)],
     loyalty      |-> [i \in Idx(n) |-> One \div 2],
     aggression   |-> [i \in Idx(n) |-> 0],
     utility_work  |-> [i \in Idx(n) |-> One],
     utility_fight |-> [i \in Idx(n) |-> 2 * One],
     utility_flee  |-> [i \in Idx(n) |-> 0],
     threat_level |-> [i \in Idx(n) |-> One \div 2],
     memory_decay |-> [i \in Idx(n) |-> One \div 10],
     social_bond  |-> [i \in Idx(n) |-> One]]

MkEngine(n) ==
    [count |-> n,
     entropy    |-> [i \in Idx(n) |-> One \div 2],
     entropy_rate |-> [i \in Idx(n) |-> One \div 10],
     grid_x     |-> [i \in Idx(n) |-> 0],
     grid_y     |-> [i \in Idx(n) |-> 0],
     stability  |-> [i \in Idx(n) |-> One \div 2],
     victory_pts |-> [i \in Idx(n) |-> 0],
     chaos_mult |-> [i \in Idx(n) |-> One],
     rng_state  |-> [i \in Idx(n) |-> U32(1)],
     end_timer  |-> [i \in Idx(n) |-> 3 * (One \div 2)]]

\* the world with no engine populated
Blank ==
    [pop |-> EmptyPop, popd |-> EmptyPop, faith |-> EmptyFaith,
     combat |-> EmptyCombat, econ |-> EmptyEcon, econb |-> EmptyEcon,
     move |-> EmptyMove, divine |-> EmptyDivine, psych |-> EmptyPsych,
     tech |-> EmptyTech, techs |-> EmptyTech, engine |-> EmptyEngine,
     env |-> EmptyEnv]

\* units whose rolls succeed: hit_chance 0.8, crit_chance 0.5
ScalarCombat ==
    [MkCombat(NScalar) EXCEPT !.hit_chance = [i \in Idx(NScalar) |-> 80]]

\* gods whose heal is 50.0 and whose blessing multiplies by 1.0
ScalarDivine ==
    [MkDivine(NScalar, [i \in Idx(NScalar) |-> 20 * One],
              [mc |-> 10 * One, tc |-> 5 * One, sp |-> 100 * One, bm |-> One])
        EXCEPT !.heal_amount = [i \in Idx(NScalar) |-> 50 * One]]

\* units an npc assesses: one hit point, a strong attack, full morale
ThreatCombat ==
    [ScalarCombat EXCEPT !.hp = [i \in Idx(NScalar) |-> One],
                         !.max_hp = [i \in Idx(NScalar) |-> One],
                         !.morale = [i \in Idx(NScalar) |-> One],
                         !.base_atk = [i \in Idx(NScalar) |-> 80 * One]]

ScalarWorlds ==
    { [Blank EXCEPT
         !.pop  = MkPop(NScalar, [k |-> One, n |-> One, r |-> 0, s |-> One,
                                  inf |-> 0, rec |-> 0, beta |-> 0, gam |-> 0]),
         !.popd = MkPop(NScalar, [k |-> 3 * One, n |-> 0, r |-> 0, s |-> One,
                                  inf |-> 0, rec |-> 0, beta |-> 0, gam |-> 0])],
      [Blank EXCEPT !.faith = MkFaith(NScalar)],
      [Blank EXCEPT
         !.combat = ScalarCombat,
         !.divine = ScalarDivine],
      [Blank EXCEPT !.combat = ThreatCombat, !.psych = MkPsych(NScalar)],
      [Blank EXCEPT
         !.econ  = MkEcon(NScalar, [i \in Idx(NScalar) |-> 20 * One]),
         !.econb = MkEcon(NScalar, [i \in Idx(NScalar) |-> 0])],
      [Blank EXCEPT !.move = MkMove(NScalar)],
      [Blank EXCEPT
         !.tech  = MkTech(NScalar, [i \in Idx(NScalar) |-> 0],
                          [i \in Idx(NScalar) |-> 0], [i \in Idx(NScalar) |-> 1]),
         !.techs = MkTech(NScalar, [i \in Idx(NScalar) |-> One],
                          [i \in Idx(NScalar) |-> 0], [i \in Idx(NScalar) |-> 0])],
      [Blank EXCEPT !.engine = MkEngine(NScalar)] }

InitScalar ==
    /\ \E w \in ScalarWorlds :
          /\ pop = w.pop /\ popd = w.popd
          /\ faith = w.faith
          /\ combat = w.combat
          /\ econ = w.econ /\ econb = w.econb
          /\ move = w.move
          /\ divine = w.divine
          /\ psych = w.psych
          /\ tech = w.tech /\ techs = w.techs
          /\ engine = w.engine
    /\ engineb = EmptyEngine
    /\ env = EmptyEnv
    /\ InitOutputs

\* a heal the model still follows: the heal of the god has not decayed to 1.0
HealInBound(g) ==
    InRange(g, divine.count) => divine.heal_amount[g] > One

\* steering the model still follows
SeekInBound(u) ==
    InRange(u, move.count) =>
        move.acc_x[u] < MaxAcc * One /\ move.acc_y[u] < MaxAcc * One
FleeInBound(u) ==
    InRange(u, move.count) =>
        move.acc_x[u] > 0 - MaxAcc * One /\ move.acc_y[u] > 0 - MaxAcc * One

\* the seeds engine_determinism_seed is called with
Seeds == {U32(0), U32(1)}

\* s after k steps of the generator
RECURSIVE LcgIter(_, _)
LcgIter(s, k) == IF k = 0 THEN s ELSE LcgIter(lcg_next(s), k - 1)

\* a chaos event the model still follows: fewer than MaxRolls rolls since a seed
ChaosInBound(f) ==
    InRange(f, engine.count) =>
        \E seed \in Seeds \cup {U32(1)}, k \in 0 .. (MaxRolls - 1) :
            engine.rng_state[f] = LcgIter(seed, k)

\* the target the movement operations are called with: (3.0, 4.0)
TargetX == 3 * One
TargetY == 4 * One

NextScalar ==
    \/ \E idx \in Args(pop.count) :
          pop_migration(idx, One \div 2, One)
          /\ last' = Call("pop_migration",
                          InRange(idx, pop.count) /\ InRange(idx, popd.count))
    \/ \E idx \in Args(faith.count) :
          faith_ritual_cost(idx, 5 * One)
          /\ last' = Call("faith_ritual_cost", InRange(idx, faith.count))
    \/ \E a \in Args(combat.count), d \in Args(combat.count) :
          combat_apply_damage(a, d, 150 * One)
          /\ last' = Call("combat_apply_damage",
                          InRange(a, combat.count) /\ InRange(d, combat.count))
    \/ \E a \in Args(combat.count) :
          combat_hit_roll(a)
          /\ last' = Call("combat_hit_roll", InRange(a, combat.count))
    \/ \E a \in Args(combat.count) :
          combat_crit_roll(a)
          /\ last' = Call("combat_crit_roll", InRange(a, combat.count))
    \/ \E u \in Args(combat.count) :
          combat_morale_boost(u, One \div 2)
          /\ last' = Call("combat_morale_boost", InRange(u, combat.count))
    \/ \E b \in Args(combat.count) :
          combat_siege_damage(b, 50 * One, One)
          /\ last' = Call("combat_siege_damage", InRange(b, combat.count))
    \/ \E si \in Args(econ.count), bi \in Args(econb.count) :
          TradeInBound(si, bi, 5 * One) /\ econ_trade(si, bi, 5 * One)
          /\ last' = Call("econ_trade",
                          InRange(si, econ.count) /\ InRange(bi, econb.count))
    \/ \E u \in Args(move.count) :
          SeekInBound(u) /\ move_seek_target(u, TargetX, TargetY, One)
          /\ last' = Call("move_seek_target", InRange(u, move.count))
    \/ \E u \in Args(move.count) :
          FleeInBound(u) /\ move_flee_target(u, TargetX, TargetY, One)
          /\ last' = Call("move_flee_target", InRange(u, move.count))
    \/ \E u \in Args(move.count) :
          move_astar_heuristic(u, TargetX, TargetY)
          /\ last' = Call("move_astar_heuristic", InRange(u, move.count))
    \/ \E u \in Args(move.count) :
          move_arrival_brake(u, TargetX, TargetY, 10 * One)
          /\ last' = Call("move_arrival_brake", InRange(u, move.count))
    \/ \E g \in Args(divine.count) :
          divine_meteor_cost(g)
          /\ last' = Call("divine_meteor_cost", InRange(g, divine.count))
    \/ \E g \in Args(divine.count), t \in Args(combat.count) :
          HealInBound(g) /\ divine_heal_apply(g, t)
          /\ last' = Call("divine_heal_apply",
                          InRange(g, divine.count) /\ InRange(t, combat.count))
    \/ \E g \in Args(divine.count), n \in TileArgs :
          divine_terraform_cost(g, n)
          /\ last' = Call("divine_terraform_cost", InRange(g, divine.count))
    \/ \E g \in Args(divine.count), t \in Args(combat.count) :
          divine_smite(g, t)
          /\ last' = Call("divine_smite",
                          InRange(g, divine.count) /\ InRange(t, combat.count))
    \/ \E g \in Args(divine.count), t \in Args(combat.count) :
          BlessingInBound(g, t) /\ divine_blessing(g, t)
          /\ last' = Call("divine_blessing",
                          InRange(g, divine.count) /\ InRange(t, combat.count))
    \/ \E n \in Args(psych.count), t \in Args(combat.count) :
          psych_threat_assess(n, t)
          /\ last' = Call("psych_threat_assess",
                          InRange(n, psych.count) /\ InRange(t, combat.count))
    \/ \E n \in Args(psych.count) :
          psych_loyalty_shift(n, One)
          /\ last' = Call("psych_loyalty_shift", InRange(n, psych.count))
    \/ \E n \in Args(psych.count) :
          psych_aggression_trigger(n, 2 * One)
          /\ last' = Call("psych_aggression_trigger", InRange(n, psych.count))
    \/ \E nation \in Args(tech.count), threshold \in {10 * One, 100 * One} :
          tech_golden_age_trigger(nation, threshold)
          /\ last' = Call("tech_golden_age_trigger", InRange(nation, tech.count))
    \/ \E si \in Args(techs.count), di \in Args(tech.count) :
          ResearchInBound /\ tech_diffusion(si, di, 1, One)
          /\ last' = Call("tech_diffusion",
                          InRange(si, techs.count) /\ InRange(di, tech.count))
    \/ \E f \in Args(engine.count) :
          ChaosInBound(f) /\ engine_chaos_event(f)
          /\ last' = Call("engine_chaos_event", InRange(f, engine.count))
    \/ \E f \in Args(engine.count) :
          engine_entropy_reset(f)
          /\ last' = Call("engine_entropy_reset", InRange(f, engine.count))
    \/ \E f \in Args(engine.count), seed \in Seeds :
          engine_determinism_seed(f, seed)
          /\ last' = Call("engine_determinism_seed", InRange(f, engine.count))

SpecScalar == InitScalar /\ [][NextScalar]_vars

(***************************************************************************)
(* Claims on the divine powers.                                            *)
(***************************************************************************)
\* a call of one of the four god actions that the caller cannot afford
Unaffordable(g, cost) == divine.energy[g] < cost

\* C1: every god action (meteor, terraform, smite, blessing) first checks
\* energy[god] >= its cost; a call that cannot be afforded changes neither the
\* Divine container nor the target's Combat fields.
C1_GodActionsAreTwoPhase ==
    [][\A g \in Idx(divine.count) :
         /\ (divine_meteor_cost(g) /\ Unaffordable(g, divine.meteor_cost[g]))
                => UNCHANGED <<divine, combat>>
         /\ \A n \in TileArgs :
              (divine_terraform_cost(g, n)
                 /\ Unaffordable(g, divine.terraform_cost[g] * n))
                => UNCHANGED <<divine, combat>>
         /\ \A t \in Idx(combat.count) :
              /\ (divine_smite(g, t) /\ Unaffordable(g, SmiteCost(g)))
                    => UNCHANGED <<divine, combat>>
              /\ (divine_blessing(g, t) /\ Unaffordable(g, BlessingCost))
                    => UNCHANGED <<divine, combat>>
      ]_vars

\* C2: for a valid god, divine_meteor_cost sets can_cast = 1 and lowers
\* energy[god] by exactly meteor_cost[god] if and only if energy[god] >=
\* meteor_cost[god]; otherwise it sets can_cast = 0 and leaves the Divine
\* container as it was.  Nothing but energy[god] and can_cast is written.
C2_MeteorAffordAndDeduct ==
    [][\A g \in Idx(divine.count) :
         divine_meteor_cost(g) =>
            IF divine.energy[g] >= divine.meteor_cost[g]
            THEN /\ can_cast' = 1
                 /\ divine' = [divine EXCEPT !.energy[g] =
                                   divine.energy[g] - divine.meteor_cost[g]]
            ELSE /\ can_cast' = 0
                 /\ divine' = divine
      ]_vars

\* a meteor was afforded by a god that spent its last energy on it
C2_Witness ==
    /\ last = Call("divine_meteor_cost", TRUE)
    /\ can_cast = 1
    /\ \E g \in Idx(divine.count) :
          divine.meteor_cost[g] > 0 /\ divine.energy[g] = 0

(***************************************************************************)
(* Claims on the economy.                                                  *)
(***************************************************************************)
Min(a, b) == IF a < b THEN a ELSE b

\* C4: with valid indices econ_trade never removes from seller.resource[si]
\* more than min(amount, seller.resource[si]), never adds to
\* buyer.resource[bi] more than that same quantity, and increments both
\* trade_volume counters by that same quantity.
C4_TradeMovesAtMostTheQuantity ==
    [][\A si \in Idx(econ.count), bi \in Idx(econb.count), a \in TradeAmounts :
         econ_trade(si, bi, a) =>
            LET q == Min(a, econ.resource[si])
            IN  /\ econ.resource[si] - econ'.resource[si] <= q
                /\ econb'.resource[bi] - econb.resource[bi] <= q
                /\ econ'.trade_volume[si] = econ.trade_volume[si] + q
                /\ econb'.trade_volume[bi] = econb.trade_volume[bi] + q
      ]_vars

\* what C4 states, for the amounts a trade is meant for (amount >= 0)
TradeMovesAtMostTheQuantityIfNonNegative ==
    [][\A si \in Idx(econ.count), bi \in Idx(econb.count), a \in TradeAmounts :
         (a >= 0 /\ econ_trade(si, bi, a)) =>
            LET q == Min(a, econ.resource[si])
            IN  /\ econ.resource[si] - econ'.resource[si] <= q
                /\ econb'.resource[bi] - econb.resource[bi] <= q
                /\ econ'.trade_volume[si] = econ.trade_volume[si] + q
                /\ econb'.trade_volume[bi] = econb.trade_volume[bi] + q
      ]_vars

\* C5: econ_trade conserves seller.resource[si] + buyer.resource[bi]: the sum
\* is the same after the call when the buyer has room for the transferred
\* quantity, it otherwise drops by the part clipped at the buyer's capacity,
\* and it never increases.
C5_TradeConservesStock ==
    [][\A si \in Idx(econ.count), bi \in Idx(econb.count), a \in TradeAmounts :
         econ_trade(si, bi, a) =>
            LET actual == Min(a, econ.resource[si])
                before == econ.resource[si] + econb.resource[bi]
                after  == econ'.resource[si] + econb'.resource[bi]
                over   == econb.resource[bi] + actual - econb.max_resource[bi]
            IN  /\ after <= before
                /\ after = IF over <= 0 THEN before ELSE before - over
      ]_vars

\* what C5 states, for the amounts a trade is meant for (amount >= 0)
TradeConservesStockIfNonNegative ==
    [][\A si \in Idx(econ.count), bi \in Idx(econb.count), a \in TradeAmounts :
         (a >= 0 /\ econ_trade(si, bi, a)) =>
            LET actual == Min(a, econ.resource[si])
                before == econ.resource[si] + econb.resource[bi]
                after  == econ'.resource[si] + econb'.resource[bi]
                over   == econb.resource[bi] + actual - econb.max_resource[bi]
            IN  /\ after <= before
                /\ after = IF over <= 0 THEN before ELSE before - over
      ]_vars

\* the end-to-end scenario of the price: resource = 0, demand = 10,
\* supply = 0, price = 1.0
PriceScenario(i) ==
    /\ econ.resource[i] = 0
    /\ econ.demand[i] = 10 * One
    /\ econ.supply[i] = 0
    /\ econ.price[i] = One

SirTol == 3 * (One \div 100)
Normalised(i) ==
    LET total == FAdd(FAdd(pop.susceptible[i], pop.infected[i]),
                      pop.recovered[i])
    IN  FLe(One - SirTol, total) /\ FLe(total, One + SirTol)

\* C6: after pop_sir_step, every group with population > 0 has
\* susceptible + infected + recovered = 1 within tolerance, also when the raw
\* update drove a compartment negative or the raw total non-positive.
C6_CompartmentsSumToOne ==
    last.op = "pop_sir_step" =>
        \A i \in Idx(pop.count) : FGt(pop.population[i], 0) => Normalised(i)

\* what the code keeps instead: each compartment alone stays in [0, 1]
EachCompartmentIsAFraction ==
    \A i \in Idx(pop.count) :
        /\ FLe(0, pop.susceptible[i]) /\ FLe(pop.susceptible[i], One)
        /\ FLe(0, pop.infected[i]) /\ FLe(pop.infected[i], One)
        /\ FLe(0, pop.recovered[i]) /\ FLe(pop.recovered[i], One)

\* C7: under every sequence of Population transforms, with any dt >= 0, any
\* growth_rate and any carrying_cap >= 0, population[i] stays within
\* [0, carrying_cap[i]].
C7_PopulationWithinCapacity ==
    \A i \in Idx(pop.count) :
        /\ FLe(0, pop.population[i])
        /\ FLe(pop.population[i], pop.carrying_cap[i])

\* the same bound for the groups whose carrying_cap is positive
PopulationWithinPositiveCapacity ==
    \A i \in Idx(pop.count) :
        FGt(pop.carrying_cap[i], 0) =>
            /\ FLe(0, pop.population[i])
            /\ FLe(pop.population[i], pop.carrying_cap[i])

\* a population equal to a positive carrying_cap is unchanged by a growth step
GrowthAtCapacityIsIdle ==
    [][\A dt \in Dts : pop_logistic_growth(dt) =>
          \A i \in Idx(pop.count) :
              (pop.population[i] = pop.carrying_cap[i]
                 /\ FGt(pop.carrying_cap[i], 0))
              => pop'.population[i] = pop.population[i]]_vars

(***************************************************************************)
(* Claims on the technology progression.                                   *)
(***************************************************************************)
\* 100 * exp(20)
MaxCost == HundredExp(20 * One)

\* the exponent of civilisation i is at or over the clamp
AtClamp(i) == FMulQ(tech.tech_level[i], 3, 10) >= 20 * One

\* C9: after tech_cost_scale, for every tech_level >= 0 (1000 among them)
\* tech_cost is finite and at most 100 * exp(20), is non-decreasing in
\* tech_level, and is the same 100 * exp(20) for every level at or over the
\* clamp point.
C9_CostIsClampedAndMonotone ==
    last.op = "tech_cost_scale" =>
        /\ \A i \in Idx(tech.count) :
              /\ Finite(tech.tech_cost[i])
              /\ tech.tech_cost[i] <= MaxCost
              /\ AtClamp(i) => tech.tech_cost[i] = MaxCost
        /\ \A i, j \in Idx(tech.count) :
              tech.tech_level[i] <= tech.tech_level[j]
                  => tech.tech_cost[i] <= tech.tech_cost[j]

\* tech_cost_scale has run on a civilisation at level 1000 and on a lower one
\* under the clamp, whose cost is lower
C9_Witness ==
    /\ last.op = "tech_cost_scale"
    /\ \E i, j \in Idx(tech.count) :
          /\ tech.tech_level[i] >= 1000 * One
          /\ tech.tech_cost[i] = MaxCost
          /\ ~AtClamp(j)
          /\ tech.tech_cost[j] < MaxCost

\* C10: for a civilisation whose research gain per tick is positive, the
\* repeated tick sequence raises tech_level infinitely often, from any level.
C10_ProgressionNeverHalts ==
    \A i \in Idx(NCivs) :
        []<>(unlock_flags[i] = 1 \/ AtLiveBound)

\* what holds instead: a civilisation whose gain is above the spacing of the
\* floats at every cost keeps unlocking
LargeGainKeepsUnlocking ==
    \A i \in Idx(NCivs) :
        tech.research_rate[i] >= 2 ^ 22 => []<>(unlock_flags[i] = 1 \/ AtLiveBound)

(***************************************************************************)
(* SpecFraction: the transforms that write a fraction-valued field, one    *)
(* engine at a time, with small and large time steps.                      *)
(***************************************************************************)
MkEnv(n) ==
    [count |-> n,
     temperature    |-> [i \in Idx(n) |-> 30 * One],
     humidity       |-> [i \in Idx(n) |-> One \div 2],
     fire_intensity |-> [i \in Idx(n) |-> One \div 2],
     fuel           |-> [i \in Idx(n) |-> One]]

\* a tick of no length and a step far too long for the updates
FractionDts == {0, 1000 * One}

\* population groups at and under a capacity that is zero or positive
FractionGroups ==
    { [k |-> k, n |-> n, r |-> One, s |-> One, inf |-> 0, rec |-> 0,
       beta |-> 0, gam |-> 0] :
        k \in {0, 10 * One}, n \in {0, 10 * One} } \ { [k |-> 0, n |-> 10 * One,
            r |-> One, s |-> One, inf |-> 0, rec |-> 0, beta |-> 0, gam |-> 0] }

FractionWorlds ==
    { [Blank EXCEPT !.faith = MkFaith(NScalar)],
      [Blank EXCEPT !.psych = MkPsych(NScalar), !.combat = ThreatCombat,
                    !.econ = MkEcon(NScalar, [i \in Idx(NScalar) |-> 5 * One])],
      [Blank EXCEPT !.env = MkEnv(NScalar)] }
    \cup { [Blank EXCEPT !.engine = MkEngine(NScalar),
                         !.tech = MkTech(NScalar, [i \in Idx(NScalar) |-> 30 * One],
                                         [i \in Idx(NScalar) |-> 0],
                                         [i \in Idx(NScalar) |-> 0]),
                         !.pop = MkPop(NScalar, g)] : g \in FractionGroups }

InitFraction ==
    /\ \E w \in FractionWorlds :
          /\ pop = w.pop /\ popd = w.popd
          /\ faith = w.faith
          /\ combat = w.combat
          /\ econ = w.econ /\ econb = w.econb
          /\ move = w.move
          /\ divine = w.divine
          /\ psych = w.psych
          /\ tech = w.tech /\ techs = w.techs
          /\ engine = w.engine
          /\ env = w.env
    /\ engineb = EmptyEngine
    /\ InitOutputs

\* small steps of aggression and happiness are followed MaxDrift hundredths
\* from where they started
AggressionInBound ==
    \A i \in Idx(psych.count) : psych.aggression[i] % 5 = 0
                                  /\ psych.aggression[i] < 5 * MaxDrift
HappinessInBound ==
    \A i \in Idx(psych.count) :
        /\ psych.happiness[i] > (One \div 2) - MaxDrift
        /\ psych.happiness[i] < (One \div 2) + MaxDrift

\* threat assessments are followed on NPCs whose fear is 0.8 or more
ThreatInBound(n) == psych.fear[n] >= 8 * (One \div 10)

NextFraction ==
    \/ \E dt \in FractionDts :
          faith_generate(dt) /\ last' = Call("faith_generate", TRUE)
    \/ \E dt \in FractionDts :
          faith_heresy_spread(dt) /\ last' = Call("faith_heresy_spread", TRUE)
    \/ \E dt \in FractionDts :
          faith_schism_accumulate(dt)
              /\ last' = Call("faith_schism_accumulate", TRUE)
    \/ \E d \in PietyDeltas :
          faith_divine_favor_update(d)
              /\ last' = Call("faith_divine_favor_update", TRUE)
    \/ \E dt \in FractionDts :
          combat_morale_decay(dt) /\ last' = Call("combat_morale_decay", TRUE)
    \/ \E u \in Idx(combat.count) :
          combat_morale_boost(u, 2 * One)
              /\ last' = Call("combat_morale_boost", TRUE)
    \/ AggressionInBound /\ psych_utility_evaluate
          /\ last' = Call("psych_utility_evaluate", TRUE)
    \/ \E dt \in FractionDts :
          psych_fear_decay(dt) /\ last' = Call("psych_fear_decay", TRUE)
    \/ HappinessInBound /\ psych_happiness_update
          /\ last' = Call("psych_happiness_update", TRUE)
    \/ \E dt \in FractionDts :
          psych_social_bond_update(dt)
              /\ last' = Call("psych_social_bond_update", TRUE)
    \/ \E dt \in FractionDts :
          psych_memory_fade(dt) /\ last' = Call("psych_memory_fade", TRUE)
    \/ psych_morale_from_psych /\ last' = Call("psych_morale_from_psych", TRUE)
    \/ \E n \in Idx(psych.count), d \in {0 - (1000 * One), 1000 * One} :
          psych_loyalty_shift(n, d) /\ last' = Call("psych_loyalty_shift", TRUE)
    \/ \E n \in Idx(psych.count) :
          psych_aggression_trigger(n, 1000 * One)
              /\ last' = Call("psych_aggression_trigger", TRUE)
    \/ \E n \in Idx(psych.count), u \in Idx(combat.count) :
          /\ ThreatInBound(n)
          /\ psych_threat_assess(n, u)
          /\ last' = Call("psych_threat_assess", TRUE)
    \/ \E dt \in FractionDts :
          env_fire_spread(2 * One, dt) /\ last' = Call("env_fire_spread", TRUE)
    \/ \E dt \in FractionDts :
          env_fire_consume(dt) /\ last' = Call("env_fire_consume", TRUE)
    \/ \E dt \in FractionDts :
          env_humidity_evaporate(dt)
              /\ last' = Call("env_humidity_evaporate", TRUE)
    \/ \E dt \in FractionDts :
          engine_entropy_increase(dt)
              /\ last' = Call("engine_entropy_increase", TRUE)
    \/ \E f \in Idx(engine.count) :
          engine_entropy_reset(f) /\ last' = Call("engine_entropy_reset", TRUE)
    \/ engine_stability_update /\ last' = Call("engine_stability_update", TRUE)
    \/ \E dt \in FractionDts :
          pop_logistic_growth(dt) /\ last' = Call("pop_logistic_growth", TRUE)

SpecFraction == InitFraction /\ [][NextFraction]_vars

(***************************************************************************)
(* SpecChaos: two runs of the engine, given the same seeds and the same    *)
(* chaos events.  Faction 0 has the same entropy and chaos_mult in both    *)
(* runs; faction 1 differs between the runs in its entropy and in the      *)
(* state its generator was left in.                                        *)
(***************************************************************************)
\* entropy of faction 0: one under the first rolls of the seeds, one over
ChaosEntropies == {One \div 10, 90}

\* the engine of a run: faction 0 as given, faction 1 with its own entropy
\* and generator state
MkRun(entropy0, entropy1, rng1) ==
    [MkEngine(NRuns) EXCEPT
        !.entropy = [i \in Idx(NRuns) |-> IF i = 0 THEN entropy0 ELSE entropy1],
        !.rng_state = [i \in Idx(NRuns) |-> IF i = 0 THEN U32(1) ELSE rng1]]

InitChaos ==
    /\ \E en \in ChaosEntropies, seed \in Seeds :
          /\ engine = DeterminismSeed(MkRun(en, One \div 10, U32(2)), 0, seed)
          /\ engineb = DeterminismSeed(MkRun(en, 90, U32(3)), 0, seed)
    /\ pop = EmptyPop /\ popd = EmptyPop
    /\ divine = EmptyDivine
    /\ faith = EmptyFaith
    /\ combat = EmptyCombat
    /\ econ = EmptyEcon /\ econb = EmptyEcon
    /\ move = EmptyMove
    /\ env = EmptyEnv
    /\ psych = EmptyPsych
    /\ tech = EmptyTech /\ techs = EmptyTech
    /\ InitOutputs

\* chaos events are followed for MaxEvents steps of a generator, while
\* chaos_mult is under MaxChaos
RunInBound(e, f) ==
    InRange(f, e.count) =>
      /\ e.chaos_mult[f] < MaxChaos * One
      /\ \E seed \in Seeds \cup {U32(1), U32(2), U32(3)}, k \in 0 .. (MaxEvents - 1) :
              e.rng_state[f] = LcgIter(seed, k)

\* the same engine_chaos_event(faction) in both runs
ChaosInBothRuns(faction) ==
    /\ engine' = ChaosEvent(engine, faction)
    /\ engineb' = ChaosEvent(engineb, faction)
    /\ UNCHANGED xEngine

\* the same engine_determinism_seed(faction, seed) in both runs
SeedInBothRuns(faction, seed) ==
    /\ engine' = DeterminismSeed(engine, faction, seed)
    /\ engineb' = DeterminismSeed(engineb, faction, seed)
    /\ UNCHANGED xEngine

NextChaos ==
    \/ \E f \in Args(NRuns) :
          /\ RunInBound(engine, f) /\ RunInBound(engineb, f)
          /\ ChaosInBothRuns(f)
          /\ last' = Call("engine_chaos_event", InRange(f, NRuns))
    \/ \E f \in Args(NRuns), seed \in Seeds :
          /\ SeedInBothRuns(f, seed)
          /\ last' = Call("engine_determinism_seed", InRange(f, NRuns))

SpecChaos == InitChaos /\ [][NextChaos]_vars

(***************************************************************************)
(* Claims on the scalar operations.                                        *)
(***************************************************************************)
\* C3: a scalar operation called with an index outside [0, count) of the
\* container it addresses (negative, count, or beyond; one bad index of two
\* suffices) changes no array of any container, and writes its output
\* parameter, if it has one, with the safe default: hit_out = 0,
\* can_cast = 0, dmg_mult_out = 1.
C3_InvalidIndexIsANoOp ==
    [][~last'.ok =>
          /\ UNCHANGED containers
          /\ last'.op = "combat_hit_roll" => hit_out' = 0
          /\ last'.op = "combat_crit_roll" => dmg_mult_out' = One
          /\ last'.op \in {"divine_meteor_cost", "divine_terraform_cost"}
                => can_cast' = 0]_vars

\* a smite was called on populated containers with an index out of range
C3_Witness ==
    /\ last = Call("divine_smite", FALSE)
    /\ divine.count > 0 /\ combat.count > 0
    /\ \A g \in Idx(divine.count) : divine.energy[g] = divine.energy_cap[g]

(***************************************************************************)
(* Unlocks, one level at a time.                                           *)
(***************************************************************************)
\* C11: one tech_unlock_check raises tech_level[i] by exactly 1 when
\* research_pts[i] >= tech_cost[i] and by 0 otherwise, however many times the
\* points cover the cost; on an unlock research_pts[i] becomes
\* research_pts[i] - tech_cost[i], which is >= 0, and unlock_flags[i] is 1
\* exactly when the level was raised.
C11_UnlockRaisesOneLevel ==
    [][last'.op = "tech_unlock_check" =>
          \A i \in Idx(tech.count) :
              IF Unlocks(i)
              THEN /\ tech'.tech_level[i] = tech.tech_level[i] + One
                   /\ tech'.research_pts[i] =
                          RoundF32(tech.research_pts[i] - tech.tech_cost[i])
                   /\ tech'.research_pts[i] >= 0
                   /\ unlock_flags'[i] = 1
              ELSE /\ tech'.tech_level[i] = tech.tech_level[i]
                   /\ tech'.research_pts[i] = tech.research_pts[i]
                   /\ unlock_flags'[i] = 0]_vars

\* a civilisation that started at level 0 has unlocked level 1 and still
\* holds at least twice the cost it paid
C11_Witness ==
    /\ last.op = "tech_unlock_check"
    /\ \E i \in Idx(tech.count) :
          /\ unlock_flags[i] = 1
          /\ tech.tech_level[i] = One
          /\ tech.tech_cost[i] > 0
          /\ tech.research_pts[i] >= 2 * tech.tech_cost[i]

(***************************************************************************)
(* Eras.                                                                   *)
(***************************************************************************)
\* C12: era[i] never decreases under research ticks, unlock checks, decay
\* of tech_level below an era boundary, diffusion and era advances, and
\* tech_era_advance stores floor(tech_level[i] / 10) only when that is
\* larger than the stored era.
C12_EraOnlyIncreases ==
    [][\A i \in Idx(tech.count) :
          /\ tech'.era[i] >= tech.era[i]
          /\ last'.op = "tech_era_advance" =>
                tech'.era[i] = IF ExpectedEra(i) > tech.era[i]
                               THEN ExpectedEra(i) ELSE tech.era[i]
          /\ last'.op # "tech_era_advance" => tech'.era[i] = tech.era[i]]_vars

\* an era advance has run on a civilisation that reached era 1 and whose
\* level has since decayed below the boundary: the era is still 1
C12_Witness ==
    /\ last.op = "tech_era_advance"
    /\ \E i \in Idx(tech.count) :
          /\ tech.era[i] = One
          /\ tech.tech_level[i] < 10 * One

(***************************************************************************)
(* Miracles.                                                               *)
(***************************************************************************)
\* the draw of faction i: the 24 bits of one LCG step from the seed of i
MiracleRoll(i) == Top24(lcg_next(RollSeed(i, MiracleSalt)))

\* roll < miracle_chance * divine_favor for a roll of 24 bits
MiracleOf(roll, chance, favor) ==
    IF roll * One < FMul(chance, favor) * Significand THEN 1 ELSE 0

SameInBothRuns(f) ==
    /\ engine.rng_state[f] = engineb.rng_state[f]
    /\ engine.chaos_mult[f] = engineb.chaos_mult[f]
    /\ engine.entropy[f] = engineb.entropy[f]

\* the step of run e to run e2 advances the generator of exactly one faction
\* by one LCG step and touches no other faction
OneFactionAdvanced(e, e2) ==
    \E f \in Idx(e.count) :
        /\ e2.rng_state[f] = lcg_next(e.rng_state[f])
        /\ \A g \in Idx(e.count) \ {f} :
              /\ e2.rng_state[g] = e.rng_state[g]
              /\ e2.chaos_mult[g] = e.chaos_mult[g]
        /\ e2.entropy = e.entropy

\* C14: two runs whose faction has the same entropy and chaos_mult, seeded
\* with the same seed and given the same chaos events, have the same
\* rng_state and chaos_mult for that faction after every call; a chaos event
\* advances only its faction's rng_state, by one LCG step modulo 2^32, and
\* changes no other faction's rng_state or chaos_mult.
C14_ChaosIsReproducible ==
    [][/\ SameInBothRuns(0)'
       /\ last'.op = "engine_chaos_event" /\ last'.ok =>
             /\ OneFactionAdvanced(engine, engine')
             /\ OneFactionAdvanced(engineb, engineb')]_vars

\* after seeding, a spike and a dampening the runs agree on faction 0, whose
\* chaos_mult has risen, and differ on faction 1
C14_Witness ==
    /\ last = Call("engine_chaos_event", TRUE)
    /\ SameInBothRuns(0)
    /\ engine.chaos_mult[0] > One
    /\ engine.rng_state[0] \notin Seeds
    /\ engine.chaos_mult[1] # engineb.chaos_mult[1]

(***************************************************************************)
(* Fractions.                                                              *)
(***************************************************************************)
\* x is a number in [0, 1]
InUnit(x) == FLe(0, x) /\ FLe(x, One)

\* every element of the array is in [0, 1]
AllInUnit(arr) == \A i \in DOMAIN arr : InUnit(arr[i])

\* C15: every fraction-valued field that starts in [0, 1] is in [0, 1] after
\* any sequence of transforms, with any dt >= 0 and any rates.
C15_FractionsStayInUnit ==
    /\ AllInUnit(faith.faith_level) /\ AllInUnit(faith.schism_risk)
    /\ AllInUnit(faith.divine_favor)
    /\ AllInUnit(combat.morale)
    /\ AllInUnit(psych.happiness) /\ AllInUnit(psych.fear)
    /\ AllInUnit(psych.loyalty) /\ AllInUnit(psych.aggression)
    /\ AllInUnit(psych.threat_level) /\ AllInUnit(psych.social_bond)
    /\ AllInUnit(env.humidity) /\ AllInUnit(env.fire_intensity)
    /\ AllInUnit(env.fuel)
    /\ AllInUnit(engine.entropy) /\ AllInUnit(engine.stability)

\* the fractions stay in [0, 1] as long as no population is NaN
FractionsStayInUnitWhilePopulationIsANumber ==
    (\A i \in Idx(pop.count) : ~IsNaN(pop.population[i]))
        => C15_FractionsStayInUnit

\* C16: after any sequence of combat_apply_damage, combat_hp_regen,
\* combat_aoe_damage, combat_siege_damage, divine_heal_apply, divine_smite and
\* divine_blessing with blessing_mult >= 0, every unit has 0 <= hp <= max_hp
C16_HitPointsWithinCapacity ==
    \A i \in Idx(combat.count) :
        FLe(0, combat.hp[i]) /\ FLe(combat.hp[i], combat.max_hp[i])

\* a blessing of 0.5 has halved the capacity of a unit at full hit points
C16_Witness ==
    /\ last.op = "divine_blessing" /\ last.ok
    /\ divine.blessing_mult[0] = One \div 2
    /\ combat.max_hp[0] < 100 * One
    /\ combat.hp[0] = combat.max_hp[0]
    /\ combat.hp[0] > 0

(***************************************************************************)
(* Hit points: every operation that writes hp, on one unit and one god     *)
(***************************************************************************)
BlessingMults == {0, One \div 2, 2 * One}
HpProfiles ==
    { [mc |-> 10 * One, tc |-> 5 * One, sp |-> 100 * One, bm |-> b] :
          b \in BlessingMults }
HpLevels == {0, 100 * One}
RawDamages == {0, 130 * One}
RegenRates == {One \div 10, 0 - One}
AoeRadii == {0, 2 * One, 0 - 2 * One}

InitHp ==
    /\ divine \in { MkDivine(NScalar, [i \in Idx(NScalar) |-> 20 * One], p) :
                        p \in HpProfiles }
    /\ combat \in { [MkCombat(NScalar) EXCEPT !.hp = [i \in Idx(NScalar) |-> h]] :
                        h \in HpLevels }
    /\ move = MkMove(NScalar)
    /\ faith = EmptyFaith
    /\ pop = EmptyPop /\ popd = EmptyPop
    /\ econ = EmptyEcon /\ econb = EmptyEcon
    /\ env = EmptyEnv
    /\ psych = EmptyPsych
    /\ tech = EmptyTech /\ techs = EmptyTech
    /\ engine = EmptyEngine
    /\ engineb = EmptyEngine
    /\ InitOutputs

NextHp ==
    \/ \E a, d \in Args(combat.count), raw \in RawDamages :
          combat_apply_damage(a, d, raw)
          /\ last' = Call("combat_apply_damage",
                          InRange(a, combat.count) /\ InRange(d, combat.count))
    \/ \E r \in RegenRates :
          combat_hp_regen(r, One) /\ last' = Call("combat_hp_regen", TRUE)
    \/ \E r \in AoeRadii :
          combat_aoe_damage(0, 0, r, 40 * One)
          /\ last' = Call("combat_aoe_damage", TRUE)
    \/ \E b \in Args(combat.count) :
          combat_siege_damage(b, 50 * One, One)
          /\ last' = Call("combat_siege_damage", InRange(b, combat.count))
    \/ \E g \in Args(divine.count), t \in Args(combat.count) :
          divine_heal_apply(g, t)
          /\ last' = Call("divine_heal_apply",
                          InRange(g, divine.count) /\ InRange(t, combat.count))
    \/ \E g \in Args(divine.count), t \in Args(combat.count) :
          divine_smite(g, t)
          /\ last' = Call("divine_smite",
                          InRange(g, divine.count) /\ InRange(t, combat.count))
    \/ \E g \in Args(divine.count), t \in Args(combat.count) :
          BlessingInBound(g, t) /\ divine_blessing(g, t)
          /\ last' = Call("divine_blessing",
                          InRange(g, divine.count) /\ InRange(t, combat.count))

SpecHp == InitHp /\ [][NextHp]_vars

(***************************************************************************)
(* Divine energy: every operation that writes energy, with time steps of   *)
(* both signs and tile counts of both signs                                *)
(***************************************************************************)
EnergyDts == {One, 0 - One, 1000 * One}

NextEnergy ==
    \/ \E dt \in EnergyDts :
          divine_energy_regen(dt) /\ last' = Call("divine_energy_regen", TRUE)
    \/ \E g \in Args(divine.count) :
          divine_meteor_cost(g)
          /\ last' = Call("divine_meteor_cost", InRange(g, divine.count))
    \/ \E g \in Args(divine.count), n \in TileArgs :
          divine_terraform_cost(g, n)
          /\ last' = Call("divine_terraform_cost", InRange(g, divine.count))
    \/ \E g \in Args(divine.count), t \in Args(combat.count) :
          divine_smite(g, t)
          /\ last' = Call("divine_smite",
                          InRange(g, divine.count) /\ InRange(t, combat.count))
    \/ \E g \in Args(divine.count), t \in Args(combat.count) :
          BlessingInBound(g, t) /\ divine_blessing(g, t)
          /\ last' = Call("divine_blessing",
                          InRange(g, divine.count) /\ InRange(t, combat.count))
    \/ divine_energy_cap /\ last' = Call("divine_energy_cap", TRUE)

SpecEnergy == InitDivine /\ [][NextEnergy]_vars

\* C17: starting from 0 <= energy <= energy_cap, after any sequence of
\* divine_energy_regen, divine_meteor_cost, divine_terraform_cost, divine_smite,
\* divine_blessing and divine_energy_cap with any arguments, every god still has
\* 0 <= energy <= energy_cap
C17_EnergyWithinCapacity ==
    \A g \in Idx(divine.count) :
        FLe(0, divine.energy[g]) /\ FLe(divine.energy[g], divine.energy_cap[g])

\* a regeneration has filled god 0 to its capacity and left god 1 below it
C17_Witness ==
    /\ last.op = "divine_energy_regen"
    /\ divine.energy[0] = divine.energy_cap[0]
    /\ divine.energy[1] > 0
    /\ divine.energy[1] < divine.energy_cap[1]

\* the stock of pool i is within its capacity
StockWithinCapacity(i) ==
    FLe(0, econ.resource[i]) /\ FLe(econ.resource[i], econ.max_resource[i])

\* C18: after econ_gather and after econ_deplete every resource[i] is in
\* [0, max_resource[i]] and supply[i] equals resource[i]
C18_SupplyTracksStock ==
    last.op \in {"econ_gather", "econ_deplete"} =>
        \A i \in Idx(econ.count) :
            StockWithinCapacity(i) /\ econ.supply[i] = econ.resource[i]

\* what the code does keep: the stock is within capacity after both transforms
\* and supply equals the stock after econ_deplete
SupplyTracksStockAfterDeplete ==
    /\ last.op \in {"econ_gather", "econ_deplete"} =>
           \A i \in Idx(econ.count) : StockWithinCapacity(i)
    /\ last.op = "econ_deplete" =>
           \A i \in Idx(econ.count) : econ.supply[i] = econ.resource[i]

(***************************************************************************)
(* SpecCross: the batch transforms that take a second container, in worlds *)
(* where the containers of one transform have every pair of counts.        *)
(***************************************************************************)
MaxCount == 2
Counts == 0 .. MaxCount

CrossGroup == [k |-> 10 * One, n |-> 10000 * One, r |-> One, s |-> One,
               inf |-> 0, rec |-> 0, beta |-> 0, gam |-> 0]
CrossTech(n) ==
    MkTech(n, [i \in Idx(n) |-> 30 * One], [i \in Idx(n) |-> 0],
           [i \in Idx(n) |-> 1])
CrossMove(n) ==
    [MkMove(n) EXCEPT !.pos_x = [i \in Idx(n) |-> 5 * One],
                      !.pos_y = [i \in Idx(n) |-> 3 * One]]

CrossWorlds ==
    UNION { { [Blank EXCEPT
                 !.divine = MkDivine(a, [i \in Idx(a) |-> 0],
                                     [mc |-> 10 * One, tc |-> 5 * One,
                                      sp |-> 100 * One, bm |-> 2 * One]),
                 !.faith = MkFaith(b)],
              [Blank EXCEPT
                 !.psych = MkPsych(a),
                 !.econ = MkEcon(b, [i \in Idx(b) |-> 5 * One])],
              [Blank EXCEPT !.psych = MkPsych(a), !.combat = MkCombat(b)],
              [Blank EXCEPT !.tech = CrossTech(a), !.pop = MkPop(b, CrossGroup)],
              [Blank EXCEPT !.engine = MkEngine(a), !.move = CrossMove(b)] } :
            a \in Counts, b \in Counts }
    \cup { [Blank EXCEPT !.engine = MkEngine(a), !.pop = MkPop(b, CrossGroup),
                         !.tech = CrossTech(c)] :
             a \in Counts, b \in Counts, c \in Counts }

InitCross ==
    /\ \E w \in CrossWorlds :
          /\ pop = w.pop /\ popd = w.popd
          /\ faith = w.faith
          /\ combat = w.combat
          /\ econ = w.econ /\ econb = w.econb
          /\ move = w.move
          /\ divine = w.divine
          /\ psych = w.psych
          /\ tech = w.tech /\ techs = w.techs
          /\ engine = w.engine
    /\ engineb = EmptyEngine
    /\ env = EmptyEnv
    /\ InitOutputs

\* the scaling and the victory points the model still follows
FavorScaleInBound ==
    \A i \in Idx(divine.count) : divine.regen_rate[i] > 5 * One
VictoryInBound ==
    \A i \in Idx(engine.count) : engine.victory_pts[i] < 100 * One

CellSizes == {0, 2 * One}

NextCross ==
    \/ divine_energy_regen(One) /\ last' = Call("divine_energy_regen", TRUE)
    \/ FavorScaleInBound /\ divine_favor_scale
          /\ last' = Call("divine_favor_scale", TRUE)
    \/ HappinessInBound /\ psych_happiness_update
          /\ last' = Call("psych_happiness_update", TRUE)
    \/ psych_morale_from_psych /\ last' = Call("psych_morale_from_psych", TRUE)
    \/ ResearchInBound /\ tech_research_tick(One)
          /\ last' = Call("tech_research_tick", TRUE)
    \/ tech_pop_research_bonus /\ last' = Call("tech_pop_research_bonus", TRUE)
    \/ engine_stability_update /\ last' = Call("engine_stability_update", TRUE)
    \/ \E cs \in CellSizes :
          engine_spatial_grid_assign(cs)
          /\ last' = Call("engine_spatial_grid_assign", TRUE)
    \/ VictoryInBound /\ engine_victory_pts_update
          /\ last' = Call("engine_victory_pts_update", TRUE)

SpecCross == InitCross /\ [][NextCross]_vars

(***************************************************************************)
(* The elements a cross-container transform touches.                       *)
(***************************************************************************)
ContainerNames ==
    {"pop", "faith", "combat", "econ", "move", "divine", "psych", "tech",
     "engine"}
ContainerOf(c) ==
    CASE c = "pop" -> pop [] c = "faith" -> faith [] c = "combat" -> combat
      [] c = "econ" -> econ [] c = "move" -> move [] c = "divine" -> divine
      [] c = "psych" -> psych [] c = "tech" -> tech [] c = "engine" -> engine

\* reads and writes of the elements I of container c
Rd(c, I) == { [c |-> c, i |-> i, w |-> FALSE] : i \in I }
Wr(c, I) == { [c |-> c, i |-> i, w |-> TRUE] : i \in I }

\* a loop over n elements that reads the second container at every index
SubstitutedReadsUnchecked(n, m) == Idx(n)

\* the indices at which a loop over n elements reads a second container of
\* m elements when it takes a constant for i >= m: (i < m) ? second[i] : constant
SubstitutedReads(n, m) == { i \in Idx(n) : i < m }

\* the indices of a loop limited to the smaller of the counts n and m
ClampedRange(n, m) == Idx(MinCount(n, m))

\* the elements the transform op reads in its second containers and writes in
\* the container it mutates
Accesses(op) ==
    CASE op = "divine_energy_regen" ->
            Rd("faith", SubstitutedReads(divine.count, faith.count))
                \cup Wr("divine", Idx(divine.count))
      [] op = "divine_favor_scale" ->
            Rd("faith", ClampedRange(divine.count, faith.count))
                \cup Wr("divine", ClampedRange(divine.count, faith.count))
      [] op = "psych_happiness_update" ->
            Rd("econ", ClampedRange(psych.count, econ.count))
                \cup Wr("psych", ClampedRange(psych.count, econ.count))
      [] op = "psych_morale_from_psych" ->
            Rd("psych", ClampedRange(psych.count, combat.count))
                \cup Wr("combat", ClampedRange(psych.count, combat.count))
      [] op = "tech_research_tick" -> Wr("tech", Idx(tech.count))
      [] op = "tech_pop_research_bonus" ->
            Rd("pop", ClampedRange(tech.count, pop.count))
                \cup Wr("tech", ClampedRange(tech.count, pop.count))
      [] op = "engine_stability_update" ->
            Rd("tech", SubstitutedReads(engine.count, tech.count))
                \cup Rd("pop", SubstitutedReads(engine.count, pop.count))
                \cup Wr("engine", Idx(engine.count))
      [] op = "engine_spatial_grid_assign" ->
            Rd("move", ClampedRange(engine.count, move.count))
                \cup Wr("engine", ClampedRange(engine.count, move.count))
      [] op = "engine_victory_pts_update" ->
            Rd("pop", SubstitutedReads(engine.count, pop.count))
                \cup Rd("tech", SubstitutedReads(engine.count, tech.count))
                \cup Wr("engine", Idx(engine.count))

\* the cross-container batch transforms
CrossOps ==
    {"divine_energy_regen", "divine_favor_scale", "psych_happiness_update",
     "psych_morale_from_psych", "tech_research_tick", "tech_pop_research_bonus",
     "engine_stability_update", "engine_spatial_grid_assign",
     "engine_victory_pts_update"}

\* the elements of container a whose fields differ between a and b
Changed(a, b) ==
    { i \in Idx(a.count) :
        \E f \in (DOMAIN a) \ {"count"} : a[f][i] # b[f][i] }

Happinesses == {One \div 2, One}
Fears == {0, 8 * (One \div 10)}

InitMorale ==
    /\ \E a \in Counts, b \in Counts :
          /\ psych \in { [MkPsych(a) EXCEPT !.happiness = h, !.fear = f] :
                           h \in [Idx(a) -> Happinesses], f \in [Idx(a) -> Fears] }
          /\ combat = MkCombat(b)
    /\ pop = EmptyPop /\ popd = EmptyPop
    /\ faith = EmptyFaith
    /\ divine = EmptyDivine
    /\ econ = EmptyEcon /\ econb = EmptyEcon
    /\ move = EmptyMove
    /\ env = EmptyEnv
    /\ tech = EmptyTech /\ techs = EmptyTech
    /\ engine = EmptyEngine
    /\ engineb = EmptyEngine
    /\ InitOutputs

NextMorale ==
    \/ psych_morale_from_psych /\ last' = Call("psych_morale_from_psych", TRUE)
    \/ \E u \in Args(combat.count) :
          combat_morale_boost(u, One \div 2)
          /\ last' = Call("combat_morale_boost", InRange(u, combat.count))
    \/ combat_morale_decay(2 * One) /\ last' = Call("combat_morale_decay", TRUE)
    \/ \E n \in Args(psych.count) :
          psych_loyalty_shift(n, One)
          /\ last' = Call("psych_loyalty_shift", InRange(n, psych.count))

SpecMorale == InitMorale /\ [][NextMorale]_vars

\* clamp(happiness * (1 - fear) * loyalty, 0, 1)
ExportedMorale(happiness, fear, loyalty) ==
    clampf(FMul(FMul(happiness, FSub(One, fear)), loyalty), 0, One)

\* C20: psych_morale_from_psych stores clamp(happiness[i] * (1 - fear[i]) *
\* loyalty[i], 0, 1) as morale[i] for every i < min(psych.count, combat.count),
\* whatever morale[i] was, leaves morale at the other indices and every other
\* Combat field unchanged, and changes no Psychology field.
C20_MoraleIsOverwritten ==
    [][last'.op = "psych_morale_from_psych" =>
          /\ \A i \in Idx(combat.count) :
                combat'.morale[i] =
                    IF i < psych.count
                    THEN ExportedMorale(psych.happiness[i], psych.fear[i],
                                        psych.loyalty[i])
                    ELSE combat.morale[i]
          /\ combat' = [combat EXCEPT !.morale = combat'.morale]
          /\ psych' = psych]_vars

\* an export with one npc and two units: the morale of unit 0, boosted
\* before, is the exported product; the boosted morale of unit 1 is kept
C20_Witness ==
    /\ last.op = "psych_morale_from_psych"
    /\ psych.count = 1 /\ combat.count = 2
    /\ combat.morale[0] = ExportedMorale(psych.happiness[0], psych.fear[0],
                                         psych.loyalty[0])
    /\ combat.morale[0] < One \div 2
    /\ combat.morale[1] = One

(***************************************************************************)
(* SpecFlock: the flocking passes, called whole and with the iterations    *)
(* of their loop run one at a time in any order.                           *)
(***************************************************************************)
NBoids == 3
MaxFlockAcc == 6

\* three units, the third farther from the first than the small radius
Boids ==
    [MkMove(NBoids) EXCEPT
        !.pos_x = [i \in Idx(NBoids) |-> IF i = 1 THEN One ELSE 0],
        !.pos_y = [i \in Idx(NBoids) |-> IF i < 2 THEN 0 ELSE 2 * i * One],
        !.vel_x = [i \in Idx(NBoids) |-> IF i = 0 THEN One ELSE 0],
        !.vel_y = [i \in Idx(NBoids) |-> IF i = 0 THEN 0 ELSE i * One]]

FlockRadii == {2 * One, 5 * One}
FlockOps == {"move_flock_separation", "move_flock_alignment", "move_flock_cohesion"}

InitFlock ==
    /\ move = Boids
    /\ pop = EmptyPop /\ popd = EmptyPop
    /\ faith = EmptyFaith
    /\ combat = EmptyCombat
    /\ divine = EmptyDivine
    /\ econ = EmptyEcon /\ econb = EmptyEcon
    /\ env = EmptyEnv
    /\ psych = EmptyPsych
    /\ tech = EmptyTech /\ techs = EmptyTech
    /\ engine = EmptyEngine
    /\ engineb = EmptyEngine
    /\ InitOutputs

\* |a|
Abs(a) == IF a < 0 THEN 0 - a ELSE a

\* the passes the model still follows: the accelerations of the units add up
\* to less than MaxFlockAcc.0
FlockInBound ==
    ScanSum([i \in Idx(move.count) |-> Abs(move.acc_x[i]) + Abs(move.acc_y[i])],
            Idx(move.count), 0, move.count) < MaxFlockAcc * One

\* a flocking pass whose iterations run in any order: the pass starts,
FlockBegin(op, radius, strength) ==
    /\ flock = NoPass
    /\ flock' = [op |-> op, radius |-> radius, strength |-> strength,
                 done |-> {}, start |-> move]
    /\ UNCHANGED <<move, last>>
    /\ UNCHANGED xFlock

\* iteration i of the pass in progress runs,
FlockStep(i) ==
    /\ flock # NoPass
    /\ i \in Idx(move.count) \ flock.done
    /\ move' = FlockIter(move, flock.op, i, flock.radius, flock.strength)
    /\ flock' = [flock EXCEPT !.done = @ \cup {i}]
    /\ UNCHANGED last
    /\ UNCHANGED xFlock

\* and the pass returns once every iteration has run
FlockEnd ==
    /\ flock # NoPass
    /\ flock.done = Idx(move.count)
    /\ flock' = NoPass
    /\ last' = Call(flock.op, TRUE)
    /\ UNCHANGED move
    /\ UNCHANGED xFlock

NextFlock ==
    \/ \E r \in FlockRadii :
          flock = NoPass /\ FlockInBound /\ move_flock_separation(r, One)
          /\ last' = Call("move_flock_separation", TRUE)
    \/ \E r \in FlockRadii :
          flock = NoPass /\ FlockInBound /\ move_flock_alignment(r, One)
          /\ last' = Call("move_flock_alignment", TRUE)
    \/ \E r \in FlockRadii :
          flock = NoPass /\ FlockInBound /\ move_flock_cohesion(r, One)
          /\ last' = Call("move_flock_cohesion", TRUE)
    \/ \E op \in FlockOps, r \in FlockRadii :
          FlockInBound /\ FlockBegin(op, r, One)
    \/ \E i \in Idx(move.count) : FlockStep(i)
    \/ FlockEnd

SpecFlock == InitFlock /\ [][NextFlock]_vars

\* the fields of unit i other than its acceleration
Steady(m, i) ==
    <<m.pos_x[i], m.pos_y[i], m.vel_x[i], m.vel_y[i], m.speed[i], m.h_cost[i]>>

\* C21: an iteration of a flocking pass writes only acc_x[i], acc_y[i] of its
\* own unit i: every position, velocity and speed and the acceleration of
\* every other unit keep their values; and once every iteration of a pass
\* has run, in whatever order, the container is the one the loop of the pass
\* in index order gives.
C21_FlockingIsOrderIndependent ==
    [][(flock # NoPass /\ flock' # NoPass) =>
          /\ \A i \in Idx(move.count) :
                /\ Steady(move', i) = Steady(move, i)
                /\ i \in flock.done \/ i \notin flock'.done =>
                      /\ move'.acc_x[i] = move.acc_x[i]
                      /\ move'.acc_y[i] = move.acc_y[i]
          /\ flock'.done = Idx(move.count) =>
                move' = FlockFrom(flock.start, flock.op, 0,
                                  flock.radius, flock.strength)]_vars

\* an alignment pass has run its iterations in the order 2, 1, 0 and has
\* changed the acceleration of unit 0
C21_Witness ==
    /\ flock # NoPass
    /\ flock.op = "move_flock_alignment"
    /\ flock.done = Idx(move.count)
    /\ move.acc_x[0] # flock.start.acc_x[0]

(***************************************************************************)
(* SpecEnd: the end-game countdown of two factions between the other       *)
(* operations of the engine.                                               *)
(***************************************************************************)
NEnd == 2
Stabilities == {One \div 20, One \div 10, One \div 2}
EndDts == {0, One}

InitEnd ==
    /\ engine \in { [MkEngine(NEnd) EXCEPT !.stability = st,
                                           !.entropy = [i \in Idx(NEnd) |-> 9 * (One \div 10)]] :
                      st \in [Idx(NEnd) -> Stabilities] }
    /\ engineb = EmptyEngine
    /\ pop = EmptyPop /\ popd = EmptyPop
    /\ faith = EmptyFaith
    /\ combat = EmptyCombat
    /\ divine = EmptyDivine
    /\ econ = EmptyEcon /\ econb = EmptyEcon
    /\ move = EmptyMove
    /\ env = EmptyEnv
    /\ psych = EmptyPsych
    /\ tech = EmptyTech /\ techs = EmptyTech
    /\ InitOutputs

NextEnd ==
    \/ \E dt \in EndDts :
          engine_end_timer_tick(dt) /\ last' = Call("engine_end_timer_tick", TRUE)
    \/ engine_end_condition_check
          /\ last' = Call("engine_end_condition_check", TRUE)
    \/ engine_entropy_increase(One) /\ last' = Call("engine_entropy_increase", TRUE)
    \/ engine_stability_update /\ last' = Call("engine_stability_update", TRUE)
    \/ engine_spatial_grid_assign(One)
          /\ last' = Call("engine_spatial_grid_assign", TRUE)
    \/ engine_victory_pts_update
          /\ last' = Call("engine_victory_pts_update", TRUE)
    \/ \E f \in Args(engine.count) :
          RunInBound(engine, f) /\ engine_chaos_event(f)
          /\ last' = Call("engine_chaos_event", InRange(f, engine.count))
    \/ \E f \in Args(engine.count), seed \in Seeds :
          engine_determinism_seed(f, seed)
          /\ last' = Call("engine_determinism_seed", InRange(f, engine.count))

SpecEnd == InitEnd /\ [][NextEnd]_vars

\* the countdown after a tick of dt: lowered by dt, not below 0
CountedDown(timer, dt) == IF timer - dt < 0 THEN 0 ELSE timer - dt

\* C22: engine_end_timer_tick leaves end_timer[i] unchanged when
\* stability[i] >= 0.1 and otherwise lowers it by dt, not below 0; no engine
\* operation raises end_timer[i]; engine_end_condition_check reports 1 exactly
\* when end_timer[i] <= 0; and a faction reported 1 is reported 1 by every
\* later check.
C22_CountdownOnlyWhileCritical ==
    [][/\ \A i \in Idx(engine.count) : engine'.end_timer[i] <= engine.end_timer[i]
       /\ last'.op = "engine_end_timer_tick" =>
             \E dt \in EndDts : \A i \in Idx(engine.count) :
                engine'.end_timer[i] =
                    IF engine.stability[i] >= One \div 10
                    THEN engine.end_timer[i]
                    ELSE CountedDown(engine.end_timer[i], dt)
       /\ last'.op # "engine_end_timer_tick" =>
             engine'.end_timer = engine.end_timer
       /\ last'.op = "engine_end_condition_check" =>
             \A i \in Idx(engine.count) :
                /\ end_flags'[i] = 1 <=> engine.end_timer[i] <= 0
                /\ (i \in DOMAIN end_flags /\ end_flags[i] = 1) => end_flags'[i] = 1]_vars

\* a second check after more operations: faction 0, critical, has counted
\* down to 0 and is reported; faction 1, never critical, still holds its timer
C22_Witness ==
    /\ last.op = "engine_end_condition_check"
    /\ end_flags = [i \in Idx(NEnd) |-> IF i = 0 THEN 1 ELSE 0]
    /\ engine.end_timer[0] = 0
    /\ engine.end_timer[1] = 3 * (One \div 2)
    /\ engine.stability[1] >= One \div 10
    /\ engine.entropy[0] = One

(***************************************************************************)
(* SpecGolden: golden ages of two nations, triggered, counted down and     *)
(* used by the research tick.  SpecGoldenFair: the countdown keeps being   *)
(* called.                                                                 *)
(***************************************************************************)
NGolden == 2
Thresholds == {40 * One, 50 * One, 60 * One}
GoldenDts == {100 * One, 300 * One}

InitGolden ==
    /\ tech = MkTech(NGolden, [i \in Idx(NGolden) |-> 0],
                     [i \in Idx(NGolden) |-> 0], [i \in Idx(NGolden) |-> 1])
    /\ techs = EmptyTech
    /\ pop = EmptyPop /\ popd = EmptyPop
    /\ faith = EmptyFaith
    /\ combat = EmptyCombat
    /\ divine = EmptyDivine
    /\ econ = EmptyEcon /\ econb = EmptyEcon
    /\ move = EmptyMove
    /\ env = EmptyEnv
    /\ psych = EmptyPsych
    /\ engine = EmptyEngine
    /\ engineb = EmptyEngine
    /\ InitOutputs

GoldenTick ==
    \E dt \in GoldenDts :
        tech_golden_age_tick(dt) /\ last' = Call("tech_golden_age_tick", TRUE)

NextGolden ==
    \/ GoldenTick
    \/ \E nation \in Args(tech.count), threshold \in Thresholds :
          tech_golden_age_trigger(nation, threshold)
          /\ last' = Call("tech_golden_age_trigger", InRange(nation, tech.count))
    \/ ResearchInBound /\ tech_research_tick(One)
          /\ last' = Call("tech_research_tick", TRUE)

SpecGolden == InitGolden /\ [][NextGolden]_vars
SpecGoldenFair == SpecGolden /\ WF_vars(GoldenTick)

\* the research points of nation i after a tick of dt whose multiplier is mult
ResearchedWith(i, mult, dt) ==
    LET bonus == IF i < pop.count THEN tech.pop_bonus[i] ELSE One
    IN  RoundF32(FAdd(tech.research_pts[i],
                      FMul(FMul(FMul(tech.research_rate[i], bonus), mult), dt)))

NCells == 2
Intensities == {0, One \div 2}
Fuels == {0, 3 * (One \div 10), One}
FireDts == {5 * One, 10 * One}

InitFire ==
    /\ env \in { [MkEnv(NCells) EXCEPT !.fire_intensity = fi, !.fuel = fu] :
                   fi \in [Idx(NCells) -> Intensities],
                   fu \in [Idx(NCells) -> Fuels] }
    /\ pop = EmptyPop /\ popd = EmptyPop
    /\ faith = EmptyFaith
    /\ combat = EmptyCombat
    /\ divine = EmptyDivine
    /\ econ = EmptyEcon /\ econb = EmptyEcon
    /\ move = EmptyMove
    /\ psych = EmptyPsych
    /\ tech = EmptyTech /\ techs = EmptyTech
    /\ engine = EmptyEngine
    /\ engineb = EmptyEngine
    /\ InitOutputs

FireConsume ==
    \E dt \in FireDts :
        env_fire_consume(dt) /\ last' = Call("env_fire_consume", TRUE)

NextFire ==
    \/ FireConsume
    \/ \E dt \in FireDts :
          env_fire_spread(One \div 10, dt) /\ last' = Call("env_fire_spread", TRUE)

SpecFire == InitFire /\ [][NextFire]_vars
SpecFireFair == SpecFire /\ WF_vars(FireConsume)

C26_MigrationCreatesNoPopulation ==
    [][\A i \in Idx(NGroups) :
          (last'.op = "pop_migration" /\ last'.ok) =>
              FLe(FSub(popd'.population[i], popd.population[i]),
                  FSub(pop.population[i], pop'.population[i]))]_vars

\* C27: no god action raises divine energy: whatever the arguments (tiles <= 0
\* included), the energy of every god after divine_meteor_cost,
\* divine_terraform_cost, divine_smite or divine_blessing is at most its
\* energy before; only divine_energy_regen raises energy.
C27_GodActionsNeverRaiseEnergy ==
    [][\A g \in Idx(NGods) :
          last'.op # "divine_energy_regen" =>
              FLe(divine'.energy[g], divine.energy[g])]_vars

\* C28: econ_trade only moves stock from the seller to the buyer: for every
\* amount (amount <= 0 included) a call raises no stock of the seller, lowers
\* no stock of the buyer and lowers neither side's trade_volume.
C28_TradeOnlyMovesSellerToBuyer ==
    [][last'.op = "econ_trade" =>
          /\ \A i \in Idx(NSellers) :
                /\ econ'.resource[i] <= econ.resource[i]
                /\ econ'.trade_volume[i] >= econ.trade_volume[i]
          /\ \A j \in Idx(NBuyers) :
                /\ econb'.resource[j] >= econb.resource[j]
                /\ econb'.trade_volume[j] >= econb.trade_volume[j]]_vars

(***************************************************************************)
(* THE GAME OF main.c                                                      *)
(*                                                                         *)
(* game holds the globals of main.c: the tiles W, the entities E, the      *)
(* civilisations C and tick.  i is the position of sim_step's loop over E  *)
(* (MAX_E when the loop is not running), keys counts the key presses       *)
(* handled, and stale[u] records that the entity unit u holds as target    *)
(* was killed after u acquired it (history only, read by no operation).    *)
(* The world is a small one: the sizes, hit points and intervals below     *)
(* stand for the larger numbers of the source.                             *)
(***************************************************************************)
WW == 3                \* world width (120 in the source)
WH == 2                \* world height (55 in the source)
MAX_E == 5             \* entity slots (1500 in the source)
NCIV == 2              \* civilisations (4 in the source)
UNIT_HP == 8           \* 40 in the source
UNIT_ATK == 7          \* 8 in the source
VILLAGE_HP == 9        \* 150 in the source
CITY_HP == 12          \* 400 in the source
MONSTER_HP == 9        \* 60 in the source
MONSTER_ATK == 8       \* 12 in the source
UNIT_SPAWN_INT == 2    \* 25 in the source
CITY_SPAWN_INT == 1    \* 12 in the source
VILLAGE_AGE_UP == 2    \* 300 in the source
MAX_UNITS_CIV == 3     \* 60 in the source
UNIT_MOVE_CD == 2      \* 3 in the source
UNIT_ATK_CD == 2       \* 5 in the source
ENEMY_DETECT_R2 == 5   \* 400 in the source
MaxTick == 3           \* sim_step stops after MaxTick ticks
MaxKeys == 2           \* handle_input stops after MaxKeys key presses

T_DEEP == 0
T_WATER == 1
T_SAND == 2
T_PLAIN == 3
T_FOREST == 4
T_MOUNT == 5
T_LAVA == 6

E_UNIT == 0
E_VILLAGE == 1
E_CITY == 2
E_MONSTER == 3

S_IDLE == 0
S_SEEK == 1
S_ATTACK == 2
S_FLEE == 3

\* an Ent after memset(e, 0, sizeof(*e))
ZeroEnt ==
    [alive |-> 0, kind |-> 0, civ |-> 0, x |-> 0, y |-> 0, hp |-> 0,
     max_hp |-> 0, atk |-> 0, state |-> 0, target |-> 0, move_cd |-> 0,
     atk_cd |-> 0, spawn_timer |-> 0, age |-> 0]

InWorld(x, y) == x >= 0 /\ x < WW /\ y >= 0 /\ y < WH

\* the land find_nearby_land and the village power accept
IsLand(t) == t = T_PLAIN \/ t = T_FOREST \/ t = T_SAND

\* the terrain move_towards, the idle wander and the unit power refuse
Impassable(t) == t = T_DEEP \/ t = T_WATER \/ t = T_MOUNT \/ t = T_LAVA

\* ent_alloc(): the first slot that is not alive, or -1
ent_alloc(g) ==
    IF \E i \in Idx(MAX_E) : g.E[i].alive = 0
    THEN CHOOSE i \in Idx(MAX_E) :
            /\ g.E[i].alive = 0
            /\ \A j \in Idx(MAX_E) : g.E[j].alive = 0 => i <= j
    ELSE 0 - 1

\* the history flags with those of us set
RECURSIVE Marked(_, _)
Marked(stale, us) ==
    IF us = {} THEN stale
    ELSE LET u == CHOOSE v \in us : TRUE
         IN  Marked([stale EXCEPT ![u] = TRUE], us \ {u})

\* ent_kill(id)
ent_kill(g, id) ==
    IF id < 0 \/ id >= MAX_E THEN g
    ELSE IF g.E[id].alive = 0 THEN g
    ELSE LET e == g.E[id]
             onTile == InWorld(e.x, e.y) /\ g.W[e.y][e.x].eid = id
             counted == e.civ >= 0 /\ e.civ < NCIV
         IN  [g EXCEPT
                !.W = IF onTile THEN [g.W EXCEPT ![e.y][e.x].eid = 0 - 1]
                                ELSE g.W,
                !.C = IF counted /\ e.kind = E_UNIT
                      THEN [g.C EXCEPT ![e.civ].units = @ - 1]
                      ELSE IF counted /\ (e.kind = E_VILLAGE \/ e.kind = E_CITY)
                      THEN [g.C EXCEPT ![e.civ].villages = @ - 1]
                      ELSE g.C,
                !.E[id].alive = 0,
                !.stale = Marked(g.stale, { u \in Idx(MAX_E) : g.E[u].target = id })]

\* ent_place(kind, civ, x, y): the globals after the call
ent_place(g, knd, cv, px, py) ==
    IF ~InWorld(px, py) THEN g
    ELSE IF g.W[py][px].eid >= 0 THEN g
    ELSE LET id == ent_alloc(g) IN
         IF id < 0 THEN g
         ELSE LET e == [ZeroEnt EXCEPT
                          !.alive = 1, !.kind = knd,
                          !.civ = IF knd = E_MONSTER THEN 0 - 1 ELSE cv,
                          !.x = px, !.y = py, !.target = 0 - 1,
                          !.state = S_IDLE,
                          !.max_hp = CASE knd = E_UNIT -> UNIT_HP
                                       [] knd = E_VILLAGE -> VILLAGE_HP
                                       [] knd = E_CITY -> CITY_HP
                                       [] knd = E_MONSTER -> MONSTER_HP,
                          !.atk = CASE knd = E_UNIT -> UNIT_ATK
                                    [] knd = E_MONSTER -> MONSTER_ATK
                                    [] OTHER -> 0,
                          !.spawn_timer = CASE knd = E_VILLAGE -> UNIT_SPAWN_INT
                                            [] knd = E_CITY -> CITY_SPAWN_INT
                                            [] OTHER -> 0]
                  counted == cv >= 0 /\ cv < NCIV
              IN  [g EXCEPT
                     !.E[id] = [e EXCEPT !.hp = e.max_hp],
                     !.W[py][px].eid = id,
                     !.C = IF counted /\ knd = E_UNIT
                           THEN [g.C EXCEPT ![cv].units = @ + 1]
                           ELSE IF counted /\ (knd = E_VILLAGE \/ knd = E_CITY)
                           THEN [g.C EXCEPT ![cv].villages = @ + 1]
                           ELSE g.C,
                     !.stale[id] = FALSE]

\* a tile find_nearby_land returns: land with no entity on it
FreeLand(g, x, y) == InWorld(x, y) /\ IsLand(g.W[y][x].t) /\ g.W[y][x].eid < 0

\* the offsets one attempt of ring r can draw
RingOffsets(r) == (0 - (r + 1)) .. (r + 1)

\* find_nearby_land's full-world fallback: the first free land in row order
LandFallback(g) ==
    LET free == { p \in Idx(WH) \X Idx(WW) : FreeLand(g, p[2], p[1]) }
    IN  IF free = {} THEN {}
        ELSE { CHOOSE p \in free :
                  \A q \in free : p[1] < q[1] \/ (p[1] = q[1] /\ p[2] <= q[2]) }

\* find_nearby_land(&ox, &oy) from ring r on: the tiles <<y, x>> it can
\* return, over every outcome of rand(); the empty set is the return of 0.
\* A ring is left for the next one only if all of its attempts can miss.
RECURSIVE LandFrom(_, _, _, _)
LandFrom(g, ox, oy, r) ==
    IF r > WH \div 2 THEN LandFallback(g)
    ELSE LET drawn == { <<oy + dy, ox + dx>> :
                          dy \in RingOffsets(r), dx \in RingOffsets(r) }
             hit == { p \in drawn : FreeLand(g, p[2], p[1]) }
         IN  hit \cup (IF hit = drawn THEN {} ELSE LandFrom(g, ox, oy, r + 1))

find_nearby_land(g, ox, oy) == LandFrom(g, ox, oy, 0)

\* dist2(x1, y1, x2, y2)
dist2(x1, y1, x2, y2) == (x1 - x2) * (x1 - x2) + (y1 - y2) * (y1 - y2)

\* the first index of cand at the least distance from entity id, or -1
\* (the scans keep the first entity that is strictly nearer)
Nearest(g, id, cand) ==
    LET d(i) == dist2(g.E[id].x, g.E[id].y, g.E[i].x, g.E[i].y)
    IN  IF cand = {} THEN 0 - 1
        ELSE CHOOSE i \in cand :
                \A j \in cand : d(i) < d(j) \/ (d(i) = d(j) /\ i <= j)

\* nearest_enemy(eid)
nearest_enemy(g, id) ==
    LET me == g.E[id]
    IN  Nearest(g, id,
            { i \in Idx(MAX_E) :
                /\ i # id /\ g.E[i].alive # 0
                /\ IF me.civ = 0 - 1 THEN g.E[i].civ >= 0
                                     ELSE g.E[i].civ # me.civ })

\* nearest_home(eid)
nearest_home(g, id) ==
    Nearest(g, id,
        { i \in Idx(MAX_E) :
            /\ g.E[i].alive # 0 /\ g.E[i].civ = g.E[id].civ
            /\ (g.E[i].kind = E_VILLAGE \/ g.E[i].kind = E_CITY) })

\* the three assignments that take entity id to the tile (nx, ny)
StepTo(g, id, nx, ny) ==
    LET e == g.E[id]
    IN  [g EXCEPT !.W = [[g.W EXCEPT ![e.y][e.x].eid = 0 - 1]
                            EXCEPT ![ny][nx].eid = id],
                  !.E[id].x = nx, !.E[id].y = ny]

\* move_towards as a unit that leaves its old tile marked
move_towards_leaving_mark(g, id, tx, ty) ==
    LET e == g.E[id]
        dx == IF tx > e.x THEN 1 ELSE IF tx < e.x THEN 0 - 1 ELSE 0
        dy == IF ty > e.y THEN 1 ELSE IF ty < e.y THEN 0 - 1 ELSE 0
        tries == << <<dx, dy>>, <<dx, 0>>, <<0, dy>>, <<0 - dy, dx>>,
                    <<dy, 0 - dx>> >>
        open(k) == LET nx == e.x + tries[k][1]
                       ny == e.y + tries[k][2]
                   IN  /\ InWorld(nx, ny)
                       /\ ~Impassable(g.W[ny][nx].t)
                       /\ g.W[ny][nx].eid < 0
    IN  IF \E k \in 1 .. 5 : open(k)
        THEN LET k == CHOOSE s \in 1 .. 5 :
                         open(s) /\ \A r \in 1 .. (s - 1) : ~open(r)
                 nx == e.x + tries[k][1]
                 ny == e.y + tries[k][2]
             IN  [g EXCEPT !.W[ny][nx].eid = id,
                           !.E[id].x = nx, !.E[id].y = ny]
        ELSE g

\* move_towards(eid, tx, ty)
move_towards(g, id, tx, ty) ==
    LET e == g.E[id]
        dx == IF tx > e.x THEN 1 ELSE IF tx < e.x THEN 0 - 1 ELSE 0
        dy == IF ty > e.y THEN 1 ELSE IF ty < e.y THEN 0 - 1 ELSE 0
        tries == << <<dx, dy>>, <<dx, 0>>, <<0, dy>>, <<0 - dy, dx>>,
                    <<dy, 0 - dx>> >>
        open(k) == LET nx == e.x + tries[k][1]
                       ny == e.y + tries[k][2]
                   IN  /\ InWorld(nx, ny)
                       /\ ~Impassable(g.W[ny][nx].t)
                       /\ g.W[ny][nx].eid < 0
    IN  IF \E k \in 1 .. 5 : open(k)
        THEN LET k == CHOOSE s \in 1 .. 5 :
                         open(s) /\ \A r \in 1 .. (s - 1) : ~open(r)
             IN  StepTo(g, id, e.x + tries[k][1], e.y + tries[k][2])
        ELSE g

\* the outcomes rand() % 5 takes in do_attack
DamageRolls == {2, 4}

\* do_attack(attacker, defender) with rand() % 5 = roll
do_attack(g, attacker, defender, roll) ==
    IF g.E[attacker].alive = 0 \/ g.E[defender].alive = 0 THEN g
    ELSE LET a == g.E[attacker]
             raw == a.atk + roll - 2
             dmg == IF raw < 1 THEN 1 ELSE raw
             left == g.E[defender].hp - dmg
             hurt == [g EXCEPT !.E[defender].hp = left]
         IN  IF left <= 0
             THEN ent_kill(IF a.civ >= 0 /\ a.civ < NCIV
                           THEN [hurt EXCEPT !.C[a.civ].kills = @ + 1]
                           ELSE hurt,
                           defender)
             ELSE hurt

\* the offsets (rand() % 3) - 1 of a wander
WanderOffsets == {0 - 1, 0, 1}

\* the idle wander of sim_unit to (nx, ny), taken if the tile lets it
IdleWander(g, id, nx, ny) ==
    IF InWorld(nx, ny) /\ ~Impassable(g.W[ny][nx].t) /\ g.W[ny][nx].eid < 0
    THEN StepTo(g, id, nx, ny)
    ELSE g

\* the wander of a fleeing monster, which refuses only water
FleeWander(g, id, nx, ny) ==
    IF /\ InWorld(nx, ny)
       /\ g.W[ny][nx].t # T_DEEP /\ g.W[ny][nx].t # T_WATER
       /\ g.W[ny][nx].eid < 0
    THEN StepTo(g, id, nx, ny)
    ELSE g

\* case S_IDLE of sim_unit
UnitIdle(g, id) ==
    LET e == g.E[id]
        moved == IF e.move_cd = 0
                 THEN { [IdleWander(g, id, e.x + ox, e.y + oy)
                            EXCEPT !.E[id].move_cd = UNIT_MOVE_CD] :
                          ox \in WanderOffsets, oy \in WanderOffsets }
                 ELSE {g}
        scan(h) ==
            IF h.tick % 5 = id % 5
            THEN LET en == nearest_enemy(h, id)
                 IN  IF /\ en >= 0
                        /\ dist2(h.E[id].x, h.E[id].y, h.E[en].x, h.E[en].y)
                              < ENEMY_DETECT_R2
                     THEN [h EXCEPT !.E[id].target = en,
                                    !.E[id].state = S_SEEK,
                                    !.stale[id] = FALSE]
                     ELSE h
            ELSE h
    IN  { scan(h) : h \in moved }

\* case S_SEEK of sim_unit
UnitSeek(g, id) ==
    LET e == g.E[id]
    IN  IF e.target < 0 THEN { [g EXCEPT !.E[id].state = S_IDLE] }
        ELSE LET d == dist2(e.x, e.y, g.E[e.target].x, g.E[e.target].y)
             IN  IF d <= 2 THEN { [g EXCEPT !.E[id].state = S_ATTACK] }
                 ELSE IF e.move_cd = 0
                 THEN { [move_towards(g, id, g.E[e.target].x, g.E[e.target].y)
                            EXCEPT !.E[id].move_cd = UNIT_MOVE_CD] }
                 ELSE {g}

\* case S_ATTACK of sim_unit
UnitAttack(g, id) ==
    LET e == g.E[id]
    IN  IF e.target < 0 THEN { [g EXCEPT !.E[id].state = S_IDLE] }
        ELSE LET d == dist2(e.x, e.y, g.E[e.target].x, g.E[e.target].y)
             IN  IF d > 2 THEN { [g EXCEPT !.E[id].state = S_SEEK] }
                 ELSE IF e.atk_cd = 0
                 THEN { LET hit == [do_attack(g, id, e.target, roll)
                                       EXCEPT !.E[id].atk_cd = UNIT_ATK_CD]
                        IN  IF hit.E[e.target].alive = 0
                            THEN [hit EXCEPT !.E[id].target = 0 - 1,
                                             !.E[id].state = S_IDLE,
                                             !.stale[id] = FALSE]
                            ELSE hit :
                          roll \in DamageRolls }
                 ELSE {g}

\* case S_FLEE of sim_unit
UnitFlee(g, id) ==
    LET e == g.E[id]
    IN  IF e.hp >= e.max_hp \div 2 THEN { [g EXCEPT !.E[id].state = S_IDLE] }
        ELSE IF e.civ < 0
        THEN IF e.move_cd = 0
             THEN { [FleeWander(g, id, e.x + ox, e.y + oy)
                        EXCEPT !.E[id].move_cd = UNIT_MOVE_CD] :
                      ox \in WanderOffsets, oy \in WanderOffsets }
             ELSE {g}
        ELSE LET fv == nearest_home(g, id)
             IN  IF fv >= 0 /\ e.move_cd = 0
                 THEN LET m == [move_towards(g, id, g.E[fv].x, g.E[fv].y)
                                   EXCEPT !.E[id].move_cd = UNIT_MOVE_CD - 1]
                      IN  IF dist2(m.E[id].x, m.E[id].y,
                                   m.E[fv].x, m.E[fv].y) < 4
                          THEN { [m EXCEPT !.E[id].hp = m.E[id].max_hp,
                                           !.E[id].state = S_IDLE] }
                          ELSE {m}
                 ELSE {g}

\* sim_unit(eid): the globals it can leave, over every outcome of rand()
sim_unit(g, id) ==
    LET e0 == g.E[id]
        e1 == [e0 EXCEPT !.move_cd = IF @ > 0 THEN @ - 1 ELSE @,
                         !.atk_cd = IF @ > 0 THEN @ - 1 ELSE @,
                         !.age = @ + 1]
        gone == /\ e1.target >= 0
                /\ (g.E[e1.target].alive = 0 \/ g.E[e1.target].civ = e1.civ)
        e2 == IF gone THEN [e1 EXCEPT !.target = 0 - 1] ELSE e1
        e3 == IF e2.hp < e2.max_hp \div 4 /\ e2.state # S_FLEE
              THEN [e2 EXCEPT !.state = S_FLEE] ELSE e2
        h == [g EXCEPT !.E[id] = e3,
                       !.stale[id] = IF gone THEN FALSE ELSE @]
    IN  CASE e3.state = S_IDLE -> UnitIdle(h, id)
          [] e3.state = S_SEEK -> UnitSeek(h, id)
          [] e3.state = S_ATTACK -> UnitAttack(h, id)
          [] e3.state = S_FLEE -> UnitFlee(h, id)

\* sim_building(eid): the globals it can leave, over every outcome of rand()
sim_building(g, id) ==
    LET e0 == g.E[id]
        aged == [g EXCEPT !.E[id].age = @ + 1,
                          !.E[id].spawn_timer = @ - 1]
    IN  IF e0.spawn_timer - 1 > 0 THEN {aged}
        ELSE LET wound == [aged EXCEPT !.E[id].spawn_timer =
                              IF e0.kind = E_CITY THEN CITY_SPAWN_INT
                                                  ELSE UNIT_SPAWN_INT]
                 land == find_nearby_land(wound, e0.x, e0.y)
                 spawned ==
                     IF e0.civ >= 0 /\ wound.C[e0.civ].units < MAX_UNITS_CIV
                        /\ land # {}
                     THEN { ent_place(wound, E_UNIT, e0.civ, p[2], p[1]) :
                              p \in land }
                     ELSE {wound}
                 upgrade(s) ==
                     IF s.E[id].kind = E_VILLAGE /\ s.E[id].age >= VILLAGE_AGE_UP
                     THEN [s EXCEPT !.E[id].kind = E_CITY,
                                    !.E[id].max_hp = CITY_HP,
                                    !.E[id].hp = CITY_HP,
                                    !.E[id].spawn_timer = CITY_SPAWN_INT]
                     ELSE s
             IN  { upgrade(s) : s \in spawned }

\* the tiles rand() can draw in sim_monster_spawn
SpawnTiles == Idx(WH) \X Idx(WW)

\* sim_monster_spawn(): no monster, or one on a drawn tile that takes it
sim_monster_spawn(g) ==
    {g} \cup { ent_place(g, E_MONSTER, 0 - 1, p[2], p[1]) :
                 p \in { q \in SpawnTiles :
                           /\ (g.W[q[1]][q[2]].t = T_PLAIN
                               \/ g.W[q[1]][q[2]].t = T_FOREST)
                           /\ g.W[q[1]][q[2]].eid < 0 } }

\* ent_kill on every entity of ids (the kills of one meteor)
RECURSIVE KillAll(_, _)
KillAll(g, ids) ==
    IF ids = {} THEN g
    ELSE LET id == CHOOSE k \in ids : \A j \in ids : k <= j
         IN  KillAll(ent_kill(g, id), ids \ {id})

\* the tiles of ps turned to terrain t
RECURSIVE Terraform(_, _, _)
Terraform(g, ps, t) ==
    IF ps = {} THEN g
    ELSE LET p == CHOOSE q \in ps : TRUE
         IN  Terraform([g EXCEPT !.W[p[1]][p[2]].t = t], ps \ {p}, t)

\* meteor_strike(wx, wy)
meteor_strike(g, wx, wy) ==
    LET hit == { p \in Idx(WH) \X Idx(WW) :
                   dist2(p[2], p[1], wx, wy) <= 9
                   /\ Abs(p[2] - wx) <= 3 /\ Abs(p[1] - wy) <= 3 }
    IN  Terraform(KillAll(g, { g.W[p[1]][p[2]].eid : p \in hit } \ {0 - 1}),
                  hit, T_LAVA)

\* the tile's entity killed, if there is one (powers 2, 4, 5 and 9)
Struck(g, wx, wy) ==
    IF g.W[wy][wx].eid >= 0 THEN ent_kill(g, g.W[wy][wx].eid) ELSE g

\* apply_power(wx, wy) under the selected power and civilisation
apply_power(g, wx, wy, sel_power, sel_civ) ==
    IF ~InWorld(wx, wy) THEN g
    ELSE CASE sel_power = 1 -> [g EXCEPT !.W[wy][wx].t = T_PLAIN]
           [] sel_power = 2 -> [Struck(g, wx, wy) EXCEPT !.W[wy][wx].t = T_WATER]
           [] sel_power = 3 -> [g EXCEPT !.W[wy][wx].t = T_FOREST]
           [] sel_power = 4 -> [Struck(g, wx, wy) EXCEPT !.W[wy][wx].t = T_MOUNT]
           [] sel_power = 5 -> [Struck(g, wx, wy) EXCEPT !.W[wy][wx].t = T_LAVA]
           [] sel_power = 6 -> [g EXCEPT !.W[wy][wx].t = T_SAND]
           [] sel_power = 7 ->
                IF ~Impassable(g.W[wy][wx].t) /\ g.W[wy][wx].eid < 0
                THEN ent_place(g, E_UNIT, sel_civ, wx, wy) ELSE g
           [] sel_power = 8 ->
                IF IsLand(g.W[wy][wx].t) /\ g.W[wy][wx].eid < 0
                THEN ent_place(g, E_VILLAGE, sel_civ, wx, wy) ELSE g
           [] sel_power = 9 -> Struck(g, wx, wy)
           [] sel_power = 10 -> meteor_strike(g, wx, wy)
           [] OTHER -> g

\* the quadrant civilisation i starts in
Starts(i) ==
    << IF i % 2 = 0 THEN WW \div 4 ELSE (3 * WW) \div 4,
       IF i < 2 THEN WH \div 4 ELSE (3 * WH) \div 4 >>

\* the up to n units civs_init places around (sx, sy)
RECURSIVE StartUnits(_, _, _, _, _)
StartUnits(g, cv, sx, sy, n) ==
    IF n = 0 THEN {g}
    ELSE LET land == find_nearby_land(g, sx, sy)
         IN  IF land = {} THEN StartUnits(g, cv, sx, sy, n - 1)
             ELSE UNION { StartUnits(h, cv, sx, sy, n - 1) :
                            h \in { ent_place(g, E_UNIT, cv, p[2], p[1]) :
                                      p \in land } }

\* one civilisation of civs_init: its village on the tile <<y, x>>, then
\* its three units around it
StartCiv(g, c, p) ==
    StartUnits(ent_place(g, E_VILLAGE, c, p[2], p[1]), c, p[2], p[1], 3)

\* civs_init() from civilisation c on
RECURSIVE CivsFrom(_, _)
CivsFrom(g, c) ==
    IF c >= NCIV THEN {g}
    ELSE LET land == find_nearby_land(g, Starts(c)[1], Starts(c)[2])
         IN  IF land = {} THEN CivsFrom(g, c + 1)
             ELSE UNION { CivsFrom(h, c + 1) :
                            h \in UNION { StartCiv(g, c, p) : p \in land } }

civs_init(g) == CivsFrom(g, 0)

(***************************************************************************)
(* SpecGame: main()'s loop on a small world: the key presses that apply a  *)
(* god power, and sim_step entity by entity.                               *)
(***************************************************************************)
\* the terrain world_gen draws: rows of W, top row first
TerrainMaps ==
    { << <<T_PLAIN, T_PLAIN, T_SAND>>, <<T_FOREST, T_PLAIN, T_WATER>> >> }

\* an array of n elements v, indexed from 0
RECURSIVE Fill(_, _)
Fill(n, v) == IF n <= 1 THEN 0 :> v ELSE Fill(n - 1, v) @@ ((n - 1) :> v)

\* world_gen's loop over the tiles ps: terrain from rows, no entity
RECURSIVE Generated(_, _, _)
Generated(g, ps, rows) ==
    IF ps = {} THEN g
    ELSE LET p == CHOOSE q \in ps : TRUE
             drawn == IF p[1] < Len(rows) /\ p[2] < Len(rows[p[1] + 1])
                      THEN rows[p[1] + 1][p[2] + 1] ELSE T_DEEP
         IN  Generated([g EXCEPT !.W[p[1]][p[2]] = [t |-> drawn, eid |-> 0 - 1]],
                       ps \ {p}, rows)

\* the globals after main()'s memsets
Zeroed ==
    [on |-> TRUE,
     W |-> Fill(WH, Fill(WW, [t |-> 0, eid |-> 0])),
     E |-> Fill(MAX_E, ZeroEnt),
     C |-> Fill(NCIV, [kills |-> 0, units |-> 0, villages |-> 0]),
     tick |-> 0,
     i |-> MAX_E,
     keys |-> 0,
     stale |-> Fill(MAX_E, FALSE)]

\* the globals after the memsets and world_gen
NewWorld(rows) == Generated(Zeroed, Idx(WH) \X Idx(WW), rows)

\* the powers the keys 1-9 and 0 select
Powers == 1 .. 10

xGame == <<pop, popd, faith, combat, econ, econb, move, divine, psych, tech,
           techs, engine, engineb, env, can_cast, hit_out, dmg_mult_out,
           unlock_flags, miracle_out, flock, end_flags>>

\* the draws of rand() followed in civs_init: the first village goes to the
\* start tile of its quadrant when that tile is land
OnStart(g) ==
    IsLand(g.W[Starts(0)[2]][Starts(0)[1]].t)
        => g.W[Starts(0)[2]][Starts(0)[1]].eid = 0

InitGame ==
    /\ game \in { g \in UNION { civs_init(NewWorld(rows)) : rows \in TerrainMaps } :
                    OnStart(g) }
    /\ pop = EmptyPop /\ popd = EmptyPop
    /\ faith = EmptyFaith
    /\ combat = EmptyCombat
    /\ divine = EmptyDivine
    /\ econ = EmptyEcon /\ econb = EmptyEcon
    /\ move = EmptyMove
    /\ env = EmptyEnv
    /\ psych = EmptyPsych
    /\ tech = EmptyTech /\ techs = EmptyTech
    /\ engine = EmptyEngine
    /\ engineb = EmptyEngine
    /\ can_cast = 0
    /\ hit_out = 0
    /\ dmg_mult_out = One
    /\ unlock_flags = NoArr
    /\ miracle_out = NoArr
    /\ flock = NoPass
    /\ end_flags = NoArr
    /\ last = NoCall

\* handle_input on the keys that select a power and a civilisation, move the
\* cursor and apply the power; the cursor is kept inside the world
HandleInput ==
    /\ game.i = MAX_E
    /\ game.keys < MaxKeys
    /\ \E wx \in Idx(WW), wy \in Idx(WH), sel_power \in Powers,
          sel_civ \in Idx(NCIV) :
          game' = [apply_power(game, wx, wy, sel_power, sel_civ)
                      EXCEPT !.keys = @ + 1]
    /\ last' = Call("apply_power", TRUE)
    /\ UNCHANGED xGame

\* sim_step up to its loop: tick++ and sim_monster_spawn
SimStepBegin ==
    /\ game.i = MAX_E
    /\ game.tick < MaxTick
    /\ \E s \in sim_monster_spawn([game EXCEPT !.tick = @ + 1]) :
          game' = [s EXCEPT !.i = 0]
    /\ last' = Call("sim_step", TRUE)
    /\ UNCHANGED xGame

\* one round of sim_step's loop, on entity game.i
SimEntity ==
    /\ game.i < MAX_E
    /\ LET e == game.E[game.i]
       IN  IF e.alive = 0
           THEN /\ game' = [game EXCEPT !.i = @ + 1]
                /\ last' = Call("sim_step", FALSE)
           ELSE IF e.kind = E_UNIT \/ e.kind = E_MONSTER
           THEN /\ \E s \in sim_unit(game, game.i) :
                      game' = [s EXCEPT !.i = @ + 1]
                /\ last' = Call("sim_unit", TRUE)
           ELSE /\ \E s \in sim_building(game, game.i) :
                      game' = [s EXCEPT !.i = @ + 1]
                /\ last' = Call("sim_building", TRUE)
    /\ UNCHANGED xGame

NextGame == HandleInput \/ SimStepBegin \/ SimEntity

SpecGame == InitGame /\ [][NextGame]_vars

\* the alive E_UNIT entities of civilisation c
UnitsOf(c) ==
    { id \in Idx(MAX_E) :
        game.E[id].alive # 0 /\ game.E[id].kind = E_UNIT /\ game.E[id].civ = c }

\* C25: no civilisation ever holds more than MAX_UNITS_CIV units: C[civ].units
\* and the number of alive E_UNIT entities of each civilisation stay at or
\* under the cap in every reachable state, the 'Spawn Unit' power included.
C25_UnitsStayWithinCap ==
    \A c \in Idx(NCIV) :
        /\ game.C[c].units <= MAX_UNITS_CIV
        /\ Cardinality(UnitsOf(c)) <= MAX_UNITS_CIV

\* C29: tiles and entities agree in every reachable state of the game loop:
\* every alive entity is the eid of the tile at its (x, y), and every tile
\* with an eid >= 0 names an alive entity that stands on that tile.
C29_TilesAndEntitiesAgree ==
    /\ \A id \in Idx(MAX_E) :
          game.E[id].alive # 0 =>
              /\ InWorld(game.E[id].x, game.E[id].y)
              /\ game.W[game.E[id].y][game.E[id].x].eid = id
    /\ \A y \in Idx(WH), x \in Idx(WW) :
          game.W[y][x].eid >= 0 =>
              /\ game.W[y][x].eid < MAX_E
              /\ game.E[game.W[y][x].eid].alive # 0
              /\ game.E[game.W[y][x].eid].x = x
              /\ game.E[game.W[y][x].eid].y = y

\* after a key press, a kill by do_attack and a spawn by a building, a
\* seeking unit has just taken its step of move_towards next to its target
C29_Witness ==
    /\ last.op = "sim_unit"
    /\ game.keys > 0
    /\ \E c \in Idx(NCIV) : game.C[c].kills > 0
    /\ \E b \in Idx(MAX_E) :
          /\ game.E[b].alive # 0 /\ game.E[b].kind = E_CITY
          /\ \E n \in Idx(MAX_E) :
                game.E[n].alive # 0 /\ game.E[n].kind = E_UNIT
                /\ game.E[n].civ = game.E[b].civ /\ game.E[n].age < game.E[b].age
    /\ \E u \in Idx(MAX_E) :
          /\ game.i = u + 1
          /\ game.E[u].alive # 0 /\ game.E[u].state = S_SEEK
          /\ game.E[u].move_cd = UNIT_MOVE_CD
          /\ game.E[u].target >= 0

\* C30: a unit pursues and attacks only the enemy it acquired: once the
\* entity it holds as target has died, the unit's next sim_unit step resets
\* target to -1, also when ent_alloc has handed the slot to a new entity.
C30_UnitDropsADeadTarget ==
    [][\A u \in Idx(MAX_E) :
          (/\ game.i = u
           /\ game.E[u].alive # 0
           /\ (game.E[u].kind = E_UNIT \/ game.E[u].kind = E_MONSTER)
           /\ game.E[u].target >= 0
           /\ game.stale[u])
              => game'.E[u].target = 0 - 1]_vars

\* do_attack strikes only an alive entity of another civilisation: a hit
\* point lost in sim_step is lost by an alive enemy of the entity at work
AttacksStrikeLiveEnemies ==
    [][\A d \in Idx(MAX_E) :
          (/\ game.i < MAX_E
           /\ game'.E[d].hp < game.E[d].hp
           /\ ~(game.E[d].alive = 0 /\ game'.E[d].alive # 0))
              => /\ game.E[d].alive # 0
                 /\ game.E[d].civ # game.E[game.i].civ
                 /\ game.E[game.i].target = d]_vars

====
